---- MODULE Spec2Model ----
(***************************************************************************)
(* A model of docker_snapshot.py: the reconstruction of `docker run`       *)
(* commands from inspected containers.                                     *)
(*                                                                         *)
(* Python strings are sequences of one-character strings, so that          *)
(* splitting, prefix tests, replacement and quoting are computed and not   *)
(* assumed.  A Python dict is a sequence of <<key, value>> pairs with      *)
(* distinct keys, in insertion order.  An optional value (None or a        *)
(* value) is a record [some, v].                                           *)
(***************************************************************************)
EXTENDS Integers, Sequences, FiniteSets, TLC

VARIABLES
    \* merge_labels / merge_envs (SpecMerge)
    existing,        \* dict of the container's filtered labels
    existing_envs,   \* list of the container's filtered "KEY=VALUE" strings
    additions,       \* list of operator (key, raw_value) pairs
    name,            \* the container name
    merged,          \* what merge_labels returned
    merged_envs,     \* what merge_envs returned
    mpc,             \* "start", "labels" (merge_labels ran), "envs" (merge_envs ran)
    \* filter_env_vars / filter_labels (SpecFilter)
    env_list,        \* a raw Config.Env list
    env_once,        \* filter_env_vars(env_list)
    env_twice,       \* filter_env_vars(env_once)
    labels,          \* a raw Config.Labels dict
    labels_once,     \* filter_labels(labels)
    labels_twice,    \* filter_labels(labels_once)
    fpc,             \* "start", "env1", "env2", "labels1", "labels2"
    \* format_restart_policy (SpecRestart)
    policy,          \* a HostConfig.RestartPolicy record
    restart_text,    \* what format_restart_policy returned
    rpc,             \* "start", "done"
    \* collect_ports (SpecPorts)
    port_settings,   \* a NetworkSettings.Ports dict
    port_args,       \* what collect_ports returned
    ppc,             \* "start", "done"
    \* main's rendering of one container (SpecRender)
    container,       \* the inspected container
    cli,             \* the parsed operator input: label_pairs, env_pairs,
                     \* add_restart, add_network, include_cmd
    gated,           \* the restart and network defaults main hands to format_command
    args,            \* format_command's list `args`
    formatted,       \* format_command's result
    xpc,             \* "start", "gated", "done"
    \* main (SpecMain)
    argv,            \* what parse_args returned: add_labels, add_envs, patterns,
                     \* output, per_container_dir, include_cmd, add_restart,
                     \* add_network, no_overwrite
    daemon,          \* the Docker daemon: up, list_ok, running
    pc,              \* where main is: "parse", "connect", "list", "render",
                     \* "combined", "makedirs", "file", "prompt", "done"
    label_pairs,     \* parse_label_args' result
    env_pairs,       \* parse_env_args' result
    contacted,       \* docker.from_env() was called
    listed,          \* client.containers.list() was called
    target_containers, \* select_containers' result
    blocks,          \* the (name, block) pairs main rendered
    dirs,            \* the directories that exist
    files,           \* the files that exist: path -> content
    widx,            \* write_output_per_container: index of the block at hand
    overwrite_all,   \* write_output_per_container: the operator answered "all"
    written,         \* write_output_per_container: files written so far
    prompts,         \* how often input() was called
    answers,         \* should_overwrite: each `response` read so far (stripped
                     \* and lowered) with the path it was asked about
    stdout,          \* what main printed
    stderr,          \* what main printed to stderr
    exit_code        \* main's return value or the exit status, once it ended

mergeVars == <<existing, existing_envs, additions, name, merged, merged_envs, mpc>>
filterVars == <<env_list, env_once, env_twice, labels, labels_once, labels_twice, fpc>>
restartVars == <<policy, restart_text, rpc>>
portVars == <<port_settings, port_args, ppc>>
renderVars == <<container, cli, gated, args, formatted, xpc>>
mainVars ==
    <<argv, daemon, pc, label_pairs, env_pairs, contacted, listed,
      target_containers, blocks, dirs, files, widx, overwrite_all, written,
      prompts, answers, stdout, stderr, exit_code>>

vars == <<mergeVars, filterVars, restartVars, portVars, renderVars, mainVars>>

----------------------------------------------------------------------------
(* Bounds of the model *)

MaxExisting == 2     \* entries of an existing label dict or env list
MaxAdds == 2         \* operator additions of one kind
MaxRetry == 4        \* a MaximumRetryCount lies in -MaxRetry..MaxRetry
MaxBindings == 2     \* host bindings of one container port
MaxCmd == 2          \* elements of a Config.Cmd list
MaxContainers == 2   \* running containers
MaxPrompts == 3      \* calls of input() in one run

----------------------------------------------------------------------------
(* Python values *)

None == [some |-> FALSE, v |-> <<>>]
Some(x) == [some |-> TRUE, v |-> x]
NoInt == [some |-> FALSE, v |-> 0]

\* `x or ""` for an optional string
OrEmpty(x) == IF x.some THEN x.v ELSE <<>>

\* Sequences over S of length at most n
SeqUpTo(S, n) == UNION {[1..k -> S] : k \in 0..n}

\* c in s, for a character c
Contains(s, c) == \E i \in 1..Len(s) : s[i] = c

\* s.startswith(p)
StartsWith(s, p) == Len(p) <= Len(s) /\ SubSeq(s, 1, Len(p)) = p

\* s.split(c, 1) for a string that contains c: (before the first c, after it)
SplitFirst(s, c) ==
    LET i == CHOOSE j \in 1..Len(s) : s[j] = c /\ \A h \in 1..(j - 1) : s[h] # c
    IN  <<SubSeq(s, 1, i - 1), SubSeq(s, i + 1, Len(s))>>

\* s.replace(old, new, 1): only the first occurrence is replaced
RECURSIVE ReplaceFirstOnly(_, _, _)
ReplaceFirstOnly(s, old, new) ==
    IF Len(s) < Len(old) THEN s
    ELSE IF SubSeq(s, 1, Len(old)) = old
         THEN new \o SubSeq(s, Len(old) + 1, Len(s))
         ELSE <<s[1]>> \o ReplaceFirstOnly(Tail(s), old, new)

\* s.replace(old, new): every non-overlapping occurrence, scanning from the left
RECURSIVE Replace(_, _, _)
Replace(s, old, new) ==
    IF Len(s) < Len(old) THEN s
    ELSE IF SubSeq(s, 1, Len(old)) = old
         THEN new \o Replace(SubSeq(s, Len(old) + 1, Len(s)), old, new)
         ELSE <<s[1]>> \o Replace(Tail(s), old, new)

\* the literal placeholder of the additions
PLACEHOLDER == <<"{", "{", "n", "a", "m", "e", "}", "}">>

\* dict operations, insertion-ordered
DictKeys(d) == {d[i][1] : i \in 1..Len(d)}
DictHas(d, k) == \E i \in 1..Len(d) : d[i][1] = k
DictGet(d, k) == d[CHOOSE i \in 1..Len(d) : d[i][1] = k][2]
DictSet(d, k, v) ==
    IF DictHas(d, k)
    THEN [i \in 1..Len(d) |-> IF d[i][1] = k THEN <<k, v>> ELSE d[i]]
    ELSE Append(d, <<k, v>>)
DictSetDefault(d, k, v) == IF DictHas(d, k) THEN d ELSE Append(d, <<k, v>>)

----------------------------------------------------------------------------
(* Mergers *)

\* merge_labels with the membership test left out: a later addition overwrites
RECURSIVE merge_labels_overwrite(_, _, _)
merge_labels_overwrite(existing_, additions_, name_) ==
    IF additions_ = <<>> THEN existing_
    ELSE LET rendered_key == Replace(additions_[1][1], PLACEHOLDER, name_)
             value == Replace(additions_[1][2], PLACEHOLDER, name_)
         IN  merge_labels_overwrite(DictSet(existing_, rendered_key, value),
                                    Tail(additions_), name_)

\* merge_labels: the loop over additions, on the copy `merged`
RECURSIVE merge_labels(_, _, _)
merge_labels(existing_, additions_, name_) ==
    IF additions_ = <<>> THEN existing_
    ELSE LET rendered_key == Replace(additions_[1][1], PLACEHOLDER, name_)
             value == Replace(additions_[1][2], PLACEHOLDER, name_)
         IN  IF DictHas(existing_, rendered_key)
             THEN merge_labels(existing_, Tail(additions_), name_)
             ELSE merge_labels(DictSet(existing_, rendered_key, value),
                               Tail(additions_), name_)

\* merge_envs, first loop: env_map from the existing list, first occurrence wins
RECURSIVE env_map_of(_, _)
env_map_of(env_map, items) ==
    IF items = <<>> THEN env_map
    ELSE IF ~Contains(items[1], "=") THEN env_map_of(env_map, Tail(items))
    ELSE LET kv == SplitFirst(items[1], "=")
         IN  env_map_of(DictSetDefault(env_map, kv[1], kv[2]), Tail(items))

\* merge_envs, second loop: the additions; the key is used as given
RECURSIVE env_map_add(_, _, _)
env_map_add(env_map, additions_, name_) ==
    IF additions_ = <<>> THEN env_map
    ELSE IF DictHas(env_map, additions_[1][1])
         THEN env_map_add(env_map, Tail(additions_), name_)
         ELSE env_map_add(
                  DictSet(env_map, additions_[1][1],
                          Replace(additions_[1][2], PLACEHOLDER, name_)),
                  Tail(additions_), name_)

\* f"{k}={v}" for every item of the map
env_items(env_map) ==
    [i \in 1..Len(env_map) |-> env_map[i][1] \o <<"=">> \o env_map[i][2]]

merge_envs(existing_envs_, additions_, name_) ==
    env_items(env_map_add(env_map_of(<<>>, existing_envs_), additions_, name_))

----------------------------------------------------------------------------
(* Filters *)

SYSTEM_ENV_KEYS ==
    { <<"P", "A", "T", "H">>, <<"H", "O", "S", "T", "N", "A", "M", "E">>,
      <<"T", "E", "R", "M">>, <<"H", "O", "M", "E">>, <<"P", "W", "D">> }
DOCKER_PREFIX == <<"D", "O", "C", "K", "E", "R", "_">>
IGNORE_LABEL_PREFIXES ==
    { <<"o", "r", "g", ".", "o", "p", "e", "n", "c", "o", "n", "t", "a", "i", "n",
        "e", "r", "s">> }
IGNORE_LABEL_KEYS ==
    { <<"m", "a", "i", "n", "t", "a", "i", "n", "e", "r">>,
      <<"b", "u", "i", "l", "d", "_", "v", "e", "r", "s", "i", "o", "n">> }

\* the test of filter_env_vars on one item: TRUE when the item is dropped
EnvItemDropped(item) ==
    \/ ~Contains(item, "=")
    \/ LET key == SplitFirst(item, "=")[1]
       IN  key \in SYSTEM_ENV_KEYS \/ StartsWith(key, DOCKER_PREFIX)

\* filter_env_vars that removes from the list it iterates over: the item after
\* a removed one is skipped
RECURSIVE filter_env_vars_remove_in_place(_)
filter_env_vars_remove_in_place(env_list_) ==
    IF env_list_ = <<>> THEN <<>>
    ELSE IF EnvItemDropped(env_list_[1])
         THEN IF Len(env_list_) = 1 THEN <<>>
              ELSE <<env_list_[2]>>
                   \o filter_env_vars_remove_in_place(SubSeq(env_list_, 3, Len(env_list_)))
         ELSE <<env_list_[1]>> \o filter_env_vars_remove_in_place(Tail(env_list_))

RECURSIVE filter_env_vars(_)
filter_env_vars(env_list_) ==
    IF env_list_ = <<>> THEN <<>>
    ELSE IF EnvItemDropped(env_list_[1]) THEN filter_env_vars(Tail(env_list_))
         ELSE <<env_list_[1]>> \o filter_env_vars(Tail(env_list_))

LabelDropped(key) ==
    \/ key \in IGNORE_LABEL_KEYS
    \/ \E pfx \in IGNORE_LABEL_PREFIXES : StartsWith(key, pfx)

RECURSIVE filter_labels(_)
filter_labels(labels_) ==
    IF labels_ = <<>> THEN <<>>
    ELSE IF LabelDropped(labels_[1][1]) THEN filter_labels(Tail(labels_))
         ELSE <<labels_[1]>> \o filter_labels(Tail(labels_))

----------------------------------------------------------------------------
(* Shell quoting and number formatting, as the standard library does them *)

Letters ==
    { "a", "b", "c", "d", "e", "f", "g", "h", "i", "j", "k", "l", "m", "n", "o",
      "p", "q", "r", "s", "t", "u", "v", "w", "x", "y", "z",
      "A", "B", "C", "D", "E", "F", "G", "H", "I", "J", "K", "L", "M", "N", "O",
      "P", "Q", "R", "S", "T", "U", "V", "W", "X", "Y", "Z" }
DigitChars == <<"0", "1", "2", "3", "4", "5", "6", "7", "8", "9">>
SafeChars ==
    Letters \cup {DigitChars[i] : i \in 1..Len(DigitChars)}
            \cup {"_", "@", "%", "+", "=", ":", ",", ".", "/", "-"}

\* shlex.quote
shlex_quote(s) ==
    IF s = <<>> THEN <<"'", "'">>
    ELSE IF \A i \in 1..Len(s) : s[i] \in SafeChars THEN s
    ELSE <<"'">> \o Replace(s, <<"'">>, <<"'", "\"", "'", "\"", "'">>) \o <<"'">>

\* str(n) of an integer
RECURSIVE NatToStr(_)
NatToStr(n) ==
    IF n < 10 THEN <<DigitChars[n + 1]>>
    ELSE NatToStr(n \div 10) \o <<DigitChars[(n % 10) + 1]>>
IntToStr(n) == IF n < 0 THEN <<"-">> \o NatToStr(-n) ELSE NatToStr(n)

----------------------------------------------------------------------------
(* Extractors *)

ON_FAILURE == <<"o", "n", "-", "f", "a", "i", "l", "u", "r", "e">>

\* format_restart_policy; policy_ is [Name, MaximumRetryCount], each optional
format_restart_policy(policy_) ==
    LET name_ == OrEmpty(policy_.Name)
        retry == policy_.MaximumRetryCount
    IN  IF name_ = <<>> THEN <<>>
        ELSE IF name_ = ON_FAILURE /\ retry.some /\ retry.v # 0
             THEN ON_FAILURE \o <<":">> \o IntToStr(retry.v)
             ELSE name_

WILDCARD_HOST_IPS == { <<"0", ".", "0", ".", "0", ".", "0">>, <<":", ":">>, <<>> }

\* the "-p <spec>" argument of one binding of container_port
port_arg(container_port, binding) ==
    LET host_port == binding.HostPort.v
        host_ip == binding.HostIp
        host == IF host_ip.some /\ host_ip.v # <<>> /\ host_ip.v \notin WILDCARD_HOST_IPS
                THEN host_ip.v \o <<":">> \o host_port
                ELSE host_port
    IN  <<"-", "p", " ">> \o shlex_quote(host \o <<":">> \o container_port)

\* collect_ports, inner loop without the `seen` test: duplicates are kept
RECURSIVE collect_bindings_no_seen(_, _, _)
collect_bindings_no_seen(port_args_, container_port, bindings) ==
    IF bindings = <<>> THEN port_args_
    ELSE IF ~bindings[1].HostPort.some \/ bindings[1].HostPort.v = <<>>
              THEN collect_bindings_no_seen(port_args_, container_port, Tail(bindings))
         ELSE collect_bindings_no_seen(
                  Append(port_args_, port_arg(container_port, bindings[1])),
                  container_port, Tail(bindings))

\* collect_ports, inner loop: the bindings of one container port; `seen` is
\* the set of the arguments collected so far
RECURSIVE collect_bindings(_, _, _)
collect_bindings(port_args_, container_port, bindings) ==
    IF bindings = <<>> THEN port_args_
    ELSE LET arg == port_arg(container_port, bindings[1])
         IN  IF ~bindings[1].HostPort.some \/ bindings[1].HostPort.v = <<>>
                  \/ \E i \in 1..Len(port_args_) : port_args_[i] = arg
             THEN collect_bindings(port_args_, container_port, Tail(bindings))
             ELSE collect_bindings(Append(port_args_, arg), container_port,
                                   Tail(bindings))

\* collect_ports, outer loop: the items of the port map; a port whose bindings
\* are None or empty is skipped
RECURSIVE collect_port_items(_, _)
collect_port_items(port_args_, items) ==
    IF items = <<>> THEN port_args_
    ELSE IF ~items[1][2].some \/ items[1][2].v = <<>>
         THEN collect_port_items(port_args_, Tail(items))
         ELSE collect_port_items(
                  collect_bindings(port_args_, items[1][1], items[1][2].v),
                  Tail(items))

\* collect_ports; port_settings_ is an optional dict
collect_ports(port_settings_) ==
    collect_port_items(<<>>, IF port_settings_.some THEN port_settings_.v ELSE <<>>)

\* collect_mounts; a mount is [Destination, Type, Source, Name] (optional
\* strings) and RW ("true", "false" or "none")
RECURSIVE collect_mounts_loop(_)
collect_mounts_loop(mounts) ==
    IF mounts = <<>> THEN <<>>
    ELSE LET mount == mounts[1]
             destination == OrEmpty(mount.Destination)
             ro_suffix == IF mount.RW = "false" THEN <<":", "r", "o">> ELSE <<>>
             source == OrEmpty(mount.Source)
             name_ == IF OrEmpty(mount.Name) # <<>> THEN mount.Name.v ELSE source
             rest == collect_mounts_loop(Tail(mounts))
         IN  IF destination = <<>> THEN rest
             ELSE IF mount.Type = Some(<<"b", "i", "n", "d">>)
                  THEN IF source = <<>> THEN rest
                       ELSE <<<<"-", "v", " ">> \o shlex_quote(source \o <<":">> \o destination
                                                    \o ro_suffix)>> \o rest
             ELSE IF mount.Type = Some(<<"v", "o", "l", "u", "m", "e">>)
                  THEN IF name_ = <<>> THEN rest
                       ELSE <<<<"-", "v", " ">> \o shlex_quote(name_ \o <<":">> \o destination
                                                    \o ro_suffix)>> \o rest
             ELSE rest

collect_mounts(mounts) == collect_mounts_loop(IF mounts.some THEN mounts.v ELSE <<>>)

DEFAULT_LINUX_CAPS ==
    { <<"A", "U", "D", "I", "T", "_", "W", "R", "I", "T", "E">>, <<"C", "H", "O", "W", "N">>, <<"D", "A", "C", "_", "O", "V", "E", "R", "R", "I", "D", "E">>, <<"F", "O", "W", "N", "E", "R">>, <<"F", "S", "E", "T", "I", "D">>, <<"K", "I", "L", "L">>,
      <<"M", "K", "N", "O", "D">>, <<"N", "E", "T", "_", "B", "I", "N", "D", "_", "S", "E", "R", "V", "I", "C", "E">>, <<"N", "E", "T", "_", "R", "A", "W">>, <<"S", "E", "T", "F", "C", "A", "P">>, <<"S", "E", "T", "G", "I", "D">>,
      <<"S", "E", "T", "P", "C", "A", "P">>, <<"S", "E", "T", "U", "I", "D">>, <<"S", "Y", "S", "_", "C", "H", "R", "O", "O", "T">> }

LowerCase == <<"a", "b", "c", "d", "e", "f", "g", "h", "i", "j", "k", "l", "m", "n", "o", "p", "q", "r", "s", "t", "u", "v", "w", "x", "y", "z">>
UpperCase == <<"A", "B", "C", "D", "E", "F", "G", "H", "I", "J", "K", "L", "M", "N", "O", "P", "Q", "R", "S", "T", "U", "V", "W", "X", "Y", "Z">>

\* str.upper
Upper(s) ==
    [i \in 1..Len(s) |->
        IF \E k \in 1..Len(LowerCase) : LowerCase[k] = s[i]
        THEN UpperCase[CHOOSE k \in 1..Len(LowerCase) : LowerCase[k] = s[i]]
        ELSE s[i]]

\* str.lower
Lower(s) ==
    [i \in 1..Len(s) |->
        IF \E k \in 1..Len(UpperCase) : UpperCase[k] = s[i]
        THEN LowerCase[CHOOSE k \in 1..Len(UpperCase) : UpperCase[k] = s[i]]
        ELSE s[i]]

\* collect_capabilities._norm
cap_norm(cap) ==
    LET cap_up == Upper(cap)
    IN  IF StartsWith(cap_up, <<"C", "A", "P", "_">>) THEN SubSeq(cap_up, 5, Len(cap_up)) ELSE cap_up

RECURSIVE collect_capabilities_loop(_)
collect_capabilities_loop(caps) ==
    IF caps = <<>> THEN <<>>
    ELSE IF cap_norm(caps[1]) \in DEFAULT_LINUX_CAPS
         THEN collect_capabilities_loop(Tail(caps))
         ELSE <<<<"-", "-", "c", "a", "p", "-", "a", "d", "d", " ">> \o shlex_quote(caps[1])>>
              \o collect_capabilities_loop(Tail(caps))

\* collect_capabilities, of HostConfig.CapAdd
collect_capabilities(cap_add) ==
    collect_capabilities_loop(IF cap_add.some THEN cap_add.v ELSE <<>>)

\* collect_sysctls, of HostConfig.Sysctls
collect_sysctls(sysctls) ==
    LET d == IF sysctls.some THEN sysctls.v ELSE <<>>
    IN  [i \in 1..Len(d) |->
            <<"-", "-", "s", "y", "s", "c", "t", "l", " ">> \o shlex_quote(d[i][1] \o <<"=">> \o d[i][2])]

RECURSIVE collect_devices_loop(_)
collect_devices_loop(devices) ==
    IF devices = <<>> THEN <<>>
    ELSE LET device == devices[1]
             path_on_host == OrEmpty(device.PathOnHost)
             path_in_container == OrEmpty(device.PathInContainer)
             cgroup_perms == IF OrEmpty(device.CgroupPermissions) # <<>>
                             THEN device.CgroupPermissions.v ELSE <<"r", "w", "m">>
         IN  IF path_on_host = <<>> \/ path_in_container = <<>>
             THEN collect_devices_loop(Tail(devices))
             ELSE <<<<"-", "-", "d", "e", "v", "i", "c", "e", " ">> \o shlex_quote(path_on_host \o <<":">>
                                                 \o path_in_container \o <<":">>
                                                 \o cgroup_perms)>>
                  \o collect_devices_loop(Tail(devices))

\* collect_devices, of HostConfig.Devices
collect_devices(devices) ==
    collect_devices_loop(IF devices.some THEN devices.v ELSE <<>>)

----------------------------------------------------------------------------
(* format_command *)

\* Config.Entrypoint and Config.Cmd: None, a string or a list of strings
NoCmd == [kind |-> "none", str |-> <<>>, list |-> <<>>]
StrCmd(s) == [kind |-> "str", str |-> s, list |-> <<>>]
ListCmd(l) == [kind |-> "list", str |-> <<>>, list |-> l]

\* cmd_as_list with the string wrapped before the `or []`: "" becomes [""]
cmd_as_list_wrap_first(x) ==
    IF x.kind = "str" THEN <<x.str>>
    ELSE IF x.kind = "list" THEN x.list
    ELSE <<>>

\* `cfg.get(...) or []`, then a string wrapped into a list
cmd_as_list(x) ==
    IF x.kind = "str" THEN (IF x.str = <<>> THEN <<>> ELSE <<x.str>>)
    ELSE IF x.kind = "list" THEN x.list
    ELSE <<>>

\* the image: Config.Image, or the first tag, or the short id
image_of(container_) ==
    IF OrEmpty(container_.Image) # <<>> THEN container_.Image.v
    ELSE IF container_.tags # <<>> THEN container_.tags[1]
    ELSE container_.short_id

\* the --network argument, if any
network_args(container_, add_network) ==
    LET network_mode == OrEmpty(container_.NetworkMode)
    IN  IF network_mode # <<>> /\ network_mode \notin {<<"b", "r", "i", "d", "g", "e">>, <<"d", "e", "f", "a", "u", "l", "t">>}
        THEN <<<<"-", "-", "n", "e", "t", "w", "o", "r", "k", " ">> \o shlex_quote(network_mode)>>
        ELSE IF OrEmpty(add_network) # <<>>
             THEN <<<<"-", "-", "n", "e", "t", "w", "o", "r", "k", " ">> \o shlex_quote(add_network.v)>>
             ELSE <<>>

\* the --restart argument, if any
restart_args(container_, add_restart) ==
    LET own == format_restart_policy(container_.RestartPolicy)
        restart_value == IF own # <<>> THEN own ELSE OrEmpty(add_restart)
    IN  IF restart_value # <<>>
        THEN <<<<"-", "-", "r", "e", "s", "t", "a", "r", "t", " ">> \o shlex_quote(restart_value)>>
        ELSE <<>>

\* the -e arguments
env_args(container_, add_env_pairs) ==
    LET env_vars == merge_envs(
                        filter_env_vars(IF container_.Env.some THEN container_.Env.v
                                        ELSE <<>>),
                        add_env_pairs, container_.name)
    IN  [i \in 1..Len(env_vars) |-> <<"-", "e", " ">> \o shlex_quote(env_vars[i])]

\* the --label arguments
label_args(container_, add_label_pairs) ==
    LET labels_ == merge_labels(
                       filter_labels(IF container_.Labels.some THEN container_.Labels.v
                                     ELSE <<>>),
                       add_label_pairs, container_.name)
    IN  [i \in 1..Len(labels_) |->
            <<"-", "-", "l", "a", "b", "e", "l", " ">> \o shlex_quote(labels_[i][1] \o <<"=">> \o labels_[i][2])]

\* the command tail
tail_args(container_, include_cmd) ==
    IF ~include_cmd THEN <<>>
    ELSE LET entrypoint == cmd_as_list(container_.Entrypoint)
             cmd == cmd_as_list(container_.Cmd)
             parts == IF entrypoint # <<>> THEN cmd
                      ELSE IF cmd = <<>> THEN <<>> ELSE Tail(cmd)
         IN  [i \in 1..Len(parts) |-> shlex_quote(parts[i])]

\* format_command with the image appended before the labels
format_command_args_image_early(container_, add_label_pairs, add_env_pairs, add_restart, add_network, include_cmd) ==
    <<<<"-", "-", "n", "a", "m", "e", " ">> \o shlex_quote(container_.name)>>
    \o network_args(container_, add_network)
    \o restart_args(container_, add_restart)
    \o collect_ports(container_.Ports)
    \o collect_mounts(container_.Mounts)
    \o collect_devices(container_.Devices)
    \o collect_capabilities(container_.CapAdd)
    \o collect_sysctls(container_.Sysctls)
    \o env_args(container_, add_env_pairs)
    \o <<shlex_quote(image_of(container_))>>
    \o label_args(container_, add_label_pairs)
    \o tail_args(container_, include_cmd)

\* format_command: the list `args`
format_command_args(container_, add_label_pairs, add_env_pairs, add_restart, add_network, include_cmd) ==
    <<<<"-", "-", "n", "a", "m", "e", " ">> \o shlex_quote(container_.name)>>
    \o network_args(container_, add_network)
    \o restart_args(container_, add_restart)
    \o collect_ports(container_.Ports)
    \o collect_mounts(container_.Mounts)
    \o collect_devices(container_.Devices)
    \o collect_capabilities(container_.CapAdd)
    \o collect_sysctls(container_.Sysctls)
    \o env_args(container_, add_env_pairs)
    \o label_args(container_, add_label_pairs)
    \o <<shlex_quote(image_of(container_))>>
    \o tail_args(container_, include_cmd)

\* sep.join(items)
RECURSIVE Join(_, _)
Join(sep, items) ==
    IF items = <<>> THEN <<>>
    ELSE IF Len(items) = 1 THEN items[1]
    ELSE items[1] \o sep \o Join(sep, Tail(items))

\* format_command: the text, one argument per continuation line
format_text(args_) ==
    Join(<<" ", "\\", "\n">>,
         <<<<"d", "o", "c", "k", "e", "r", " ", "r", "u", "n">>>> \o [i \in 1..Len(args_) |-> <<" ", " ">> \o args_[i]])

\* render_container_block
render_container_block(container_, text) ==
    <<"#", " ", "C", "o", "n", "t", "a", "i", "n", "e", "r", ":", " ">> \o container_.name \o <<"\n">> \o text \o <<"\n">>

\* main: the restart default handed to format_command for one container
restart_override(container_, add_restart) ==
    IF format_restart_policy(container_.RestartPolicy) = <<>> THEN add_restart
    ELSE Some(<<>>)

\* the same with "default" left out of the modes the default applies to
network_override_bridge_only(container_, add_network) ==
    IF ~container_.NetworkMode.some
          \/ container_.NetworkMode.v \in {<<>>, <<"b", "r", "i", "d", "g", "e">>}
    THEN add_network ELSE None

\* main: the network default handed to format_command for one container
network_override(container_, add_network) ==
    IF ~container_.NetworkMode.some
          \/ container_.NetworkMode.v \in {<<>>, <<"b", "r", "i", "d", "g", "e">>, <<"d", "e", "f", "a", "u", "l", "t">>}
    THEN add_network ELSE None

----------------------------------------------------------------------------
(* Operator input, selection and output files *)

Whitespace == {" ", "\t", "\n", "\r"}

\* str.strip()
RECURSIVE LStrip(_)
LStrip(s) == IF s # <<>> /\ s[1] \in Whitespace THEN LStrip(Tail(s)) ELSE s
RECURSIVE RStrip(_)
RStrip(s) ==
    IF s # <<>> /\ s[Len(s)] \in Whitespace THEN RStrip(SubSeq(s, 1, Len(s) - 1)) ELSE s
Strip(s) == LStrip(RStrip(s))

\* parse_kv_args without the strip of the key
RECURSIVE parse_kv_args_no_strip(_, _, _)
parse_kv_args_no_strip(parsed, raw_items, kind) ==
    IF raw_items = <<>> THEN [ok |-> TRUE, parsed |-> parsed, error |-> <<>>]
    ELSE LET raw == raw_items[1]
         IN  IF ~Contains(raw, "=")
             THEN [ok |-> FALSE, parsed |-> <<>>,
                   error |-> <<"I", "n", "v", "a", "l", "i", "d", " ">> \o kind \o <<" ", "'">> \o raw \o <<"'", ",", " ", "e", "x", "p", "e", "c", "t", "e", "d", " ", "K", "E", "Y", "=", "V", "A", "L", "U", "E">>]
             ELSE LET key == SplitFirst(raw, "=")[1]
                      value == SplitFirst(raw, "=")[2]
                  IN  IF key = <<>>
                      THEN [ok |-> FALSE, parsed |-> <<>>,
                            error |-> <<"I", "n", "v", "a", "l", "i", "d", " ">> \o kind \o <<" ", "'">> \o raw \o <<"'", ",", " ", "k", "e", "y", " ", "i", "s", " ", "e", "m", "p", "t", "y">>]
                      ELSE parse_kv_args_no_strip(Append(parsed, <<key, value>>),
                                                  Tail(raw_items), kind)

\* parse_kv_args: the loop, `parsed` so far; a ValueError is ok = FALSE with
\* its message
RECURSIVE parse_kv_args(_, _, _)
parse_kv_args(parsed, raw_items, kind) ==
    IF raw_items = <<>> THEN [ok |-> TRUE, parsed |-> parsed, error |-> <<>>]
    ELSE LET raw == raw_items[1]
         IN  IF ~Contains(raw, "=")
             THEN [ok |-> FALSE, parsed |-> <<>>,
                   error |-> <<"I", "n", "v", "a", "l", "i", "d", " ">> \o kind \o <<" ", "'">> \o raw \o <<"'", ",", " ", "e", "x", "p", "e", "c", "t", "e", "d", " ", "K", "E", "Y", "=", "V", "A", "L", "U", "E">>]
             ELSE LET key == Strip(SplitFirst(raw, "=")[1])
                      value == SplitFirst(raw, "=")[2]
                  IN  IF key = <<>>
                      THEN [ok |-> FALSE, parsed |-> <<>>,
                            error |-> <<"I", "n", "v", "a", "l", "i", "d", " ">> \o kind \o <<" ", "'">> \o raw \o <<"'", ",", " ", "k", "e", "y", " ", "i", "s", " ", "e", "m", "p", "t", "y">>]
                      ELSE parse_kv_args(Append(parsed, <<key, value>>),
                                         Tail(raw_items), kind)

parse_label_args(label_args_) == parse_kv_args(<<>>, label_args_, <<"l", "a", "b", "e", "l">>)
parse_env_args(env_args_) == parse_kv_args(<<>>, env_args_, <<"e", "n", "v", "i", "r", "o", "n", "m", "e", "n", "t", " ", "v", "a", "r", "i", "a", "b", "l", "e">>)

\* pat in s
IsSubstring(pat, s) ==
    \E i \in 0..(Len(s) - Len(pat)) : SubSeq(s, i + 1, i + Len(pat)) = pat

RECURSIVE select_containers_loop(_, _)
select_containers_loop(containers, lowered) ==
    IF containers = <<>> THEN <<>>
    ELSE IF \E k \in 1..Len(lowered) : IsSubstring(lowered[k], Lower(containers[1].name))
         THEN <<containers[1]>> \o select_containers_loop(Tail(containers), lowered)
         ELSE select_containers_loop(Tail(containers), lowered)

select_containers(containers, patterns) ==
    IF patterns = <<>> THEN containers
    ELSE select_containers_loop(containers,
                                [k \in 1..Len(patterns) |-> Lower(patterns[k])])

\* str.strip("/")
RECURSIVE StripSlashes(_)
StripSlashes(s) ==
    IF s # <<>> /\ s[1] = "/" THEN StripSlashes(Tail(s))
    ELSE IF s # <<>> /\ s[Len(s)] = "/" THEN StripSlashes(SubSeq(s, 1, Len(s) - 1))
    ELSE s

AlnumChars == Letters \cup {DigitChars[i] : i \in 1..Len(DigitChars)}

sanitize_filename(name_) ==
    LET trimmed == IF StripSlashes(name_) # <<>> THEN StripSlashes(name_)
                   ELSE <<"c", "o", "n", "t", "a", "i", "n", "e", "r">>
    IN  [i \in 1..Len(trimmed) |->
            IF trimmed[i] \in AlnumChars \cup {"-", "_", "."} THEN trimmed[i] ELSE "_"]

\* os.path.join(directory, filename), for a relative filename
path_join(directory, filename) ==
    IF directory = <<>> \/ directory[Len(directory)] = "/" THEN directory \o filename
    ELSE directory \o <<"/">> \o filename

\* write_output_per_container: the path of the block of container name_
full_path_of(directory, name_) ==
    path_join(directory, sanitize_filename(name_) \o <<".", "s", "h">>)

\* write_output_per_container: the content of one script
script_of(block) == <<"#", "!", "/", "b", "i", "n", "/", "b", "a", "s", "h", "\n", "\n">> \o RStrip(block) \o <<"\n">>

\* write_output_combined: the content of the combined script
combined_script_of(blocks_) ==
    RStrip(Join(<<"\n">>, <<<<"#", "!", "/", "b", "i", "n", "/", "b", "a", "s", "h">>, <<>>>> \o blocks_)) \o <<"\n">>

\* files with path written: created or overwritten
WriteFile(files_, path, content) ==
    [p \in DOMAIN files_ \cup {path} |-> IF p = path THEN content ELSE files_[p]]

\* should_overwrite with "a" and "all" returning (True, overwrite_all)
Answer_all_as_yes(response) ==
    LET r == Lower(Strip(response))
    IN  IF r \in {<<"y">>, <<"y", "e", "s">>, <<"a">>, <<"a", "l", "l">>} THEN "yes"
        ELSE IF r \in {<<>>, <<"n">>, <<"n", "o">>} THEN "no"
        ELSE "again"

\* should_overwrite: what a response to the prompt means
Answer(response) ==
    LET r == Lower(Strip(response))
    IN  IF r \in {<<"y">>, <<"y", "e", "s">>} THEN "yes"
        ELSE IF r \in {<<"a">>, <<"a", "l", "l">>} THEN "all"
        ELSE IF r \in {<<>>, <<"n">>, <<"n", "o">>} THEN "no"
        ELSE "again"

----------------------------------------------------------------------------
(* The variables a specification does not use stay at these values *)

MergeIdle ==
    /\ existing = <<>> /\ existing_envs = <<>> /\ additions = <<>>
    /\ name = <<>> /\ merged = <<>> /\ merged_envs = <<>> /\ mpc = "idle"

FilterIdle ==
    /\ env_list = <<>> /\ env_once = <<>> /\ env_twice = <<>>
    /\ labels = <<>> /\ labels_once = <<>> /\ labels_twice = <<>> /\ fpc = "idle"

RestartIdle ==
    /\ policy = [Name |-> None, MaximumRetryCount |-> NoInt]
    /\ restart_text = <<>> /\ rpc = "idle"

PortsIdle == port_settings = None /\ port_args = <<>> /\ ppc = "idle"

NoPolicy == [Name |-> None, MaximumRetryCount |-> NoInt]

\* a container of which inspection reports nothing but a name and an image
BaseContainer ==
    [ name |-> <<"w">>, NetworkMode |-> None, RestartPolicy |-> NoPolicy,
      Ports |-> None, Mounts |-> None, Devices |-> None, CapAdd |-> None,
      Sysctls |-> None, Env |-> None, Labels |-> None,
      Image |-> Some(<<"i", "m", "g">>), tags |-> <<>>, short_id |-> <<"s", "h", "a">>,
      Entrypoint |-> NoCmd, Cmd |-> NoCmd ]

\* no operator input
BaseCli ==
    [ label_pairs |-> <<>>, env_pairs |-> <<>>, add_restart |-> None,
      add_network |-> None, include_cmd |-> FALSE ]

NoGate == [add_restart |-> None, add_network |-> None]

RenderIdle ==
    /\ container = BaseContainer /\ cli = BaseCli /\ gated = NoGate
    /\ args = <<>> /\ formatted = <<>> /\ xpc = "idle"

\* an empty files map
NoFiles == [p \in {} |-> <<>>]

\* no operator input at all
BaseArgv ==
    [ add_labels |-> <<>>, add_envs |-> <<>>, patterns |-> <<>>, output |-> None,
      per_container_dir |-> <<"d">>, include_cmd |-> FALSE, add_restart |-> None,
      add_network |-> None, no_overwrite |-> FALSE ]

MainIdle ==
    /\ argv = BaseArgv
    /\ daemon = [up |-> TRUE, list_ok |-> TRUE, running |-> <<>>]
    /\ pc = "idle"
    /\ label_pairs = <<>> /\ env_pairs = <<>>
    /\ contacted = FALSE /\ listed = FALSE
    /\ target_containers = <<>> /\ blocks = <<>>
    /\ dirs = {} /\ files = NoFiles
    /\ widx = 0 /\ overwrite_all = FALSE /\ written = 0 /\ prompts = 0
    /\ answers = <<>>
    /\ stdout = <<>> /\ stderr = <<>>
    /\ exit_code = "none"

----------------------------------------------------------------------------
(* SpecMerge: the two mergers applied to bounded inputs *)

\* An addition is written as pieces: a piece is the placeholder or other text.
Txt(s) == [ph |-> FALSE, txt |-> s]
Ph == [ph |-> TRUE, txt |-> PLACEHOLDER]

RECURSIVE Flat(_)
Flat(parts) == IF parts = <<>> THEN <<>> ELSE parts[1].txt \o Flat(Tail(parts))

AddPartsPool ==
    { [k |-> <<Txt(<<"a">>)>>, v |-> <<Txt(<<"z">>)>>],
      [k |-> <<Ph>>, v |-> <<Ph>>],
      [k |-> <<Txt(<<"r", ".">>), Ph>>, v |-> <<Ph, Txt(<<":">>), Ph>>],
      [k |-> <<Txt(<<"{", "{", "N", "a", "m", "e", "}", "}">>)>>,
       v |-> <<Txt(<<"{", "{", "N", "a", "m", "e", "}", "}">>)>>],
      [k |-> <<Txt(<<"w">>)>>, v |-> <<Txt(<<"{">>), Ph, Txt(<<"}">>)>>],
      [k |-> <<Txt(<<"b">>)>>, v |-> <<Txt(<<"{", "{", "n", "a", "m", "e", "}">>)>>] }

AddPool == {<<Flat(p.k), Flat(p.v)>> : p \in AddPartsPool}

Names == {<<"w">>, <<"d", "b">>}

LabelKeyPool == {<<"a">>, <<"w">>, <<"r", ".", "w">>}
LabelValuePool == {<<"x">>, <<"y">>}

\* label dicts: distinct keys
LabelDicts ==
    {d \in SeqUpTo(LabelKeyPool \X LabelValuePool, MaxExisting) :
        \A i, j \in 1..Len(d) : i # j => d[i][1] # d[j][1]}

EnvItemPool ==
    { <<"a", "=", "x">>, <<"a", "=", "y">>, <<"w", "=", "x", "=", "y">>,
      <<"b">> }

EnvLists == SeqUpTo(EnvItemPool, MaxExisting)

InitMerge ==
    /\ name \in Names
    /\ additions \in SeqUpTo(AddPool, MaxAdds)
    /\ \/ existing \in LabelDicts /\ existing_envs = <<>>
       \/ existing = <<>> /\ existing_envs \in EnvLists
    /\ merged = <<>>
    /\ merged_envs = <<>>
    /\ mpc = "start"
    /\ FilterIdle /\ RestartIdle /\ PortsIdle /\ RenderIdle /\ MainIdle

MergeLabels ==
    /\ mpc = "start"
    /\ merged' = merge_labels(existing, additions, name)
    /\ mpc' = "labels"
    /\ UNCHANGED <<existing, existing_envs, additions, name, merged_envs>>
    /\ UNCHANGED <<filterVars, restartVars, portVars, renderVars, mainVars>>

MergeEnvs ==
    /\ mpc = "start"
    /\ merged_envs' = merge_envs(existing_envs, additions, name)
    /\ mpc' = "envs"
    /\ UNCHANGED <<existing, existing_envs, additions, name, merged>>
    /\ UNCHANGED <<filterVars, restartVars, portVars, renderVars, mainVars>>

NextMerge == MergeLabels \/ MergeEnvs

SpecMerge == InitMerge /\ [][NextMerge]_vars

\* the pieces an addition of the pool was written as
PartsOf(a) == CHOOSE p \in AddPartsPool : <<Flat(p.k), Flat(p.v)>> = a

\* the pieces with every placeholder piece replaced by the name
RECURSIVE Subst(_, _)
Subst(parts, nm) ==
    IF parts = <<>> THEN <<>>
    ELSE (IF parts[1].ph THEN nm ELSE parts[1].txt) \o Subst(Tail(parts), nm)

\* the key and the value of a "KEY=VALUE" item
EnvKey(item) == SplitFirst(item, "=")[1]
EnvValue(item) == SplitFirst(item, "=")[2]
FirstWithKey(items, k) ==
    CHOOSE i \in 1..Len(items) :
        /\ Contains(items[i], "=") /\ EnvKey(items[i]) = k
        /\ \A h \in 1..(i - 1) : ~(Contains(items[h], "=") /\ EnvKey(items[h]) = k)

\* C1: merge_labels and merge_envs never overwrite an existing key: every key
\* K of the existing label dict (env list) occurs exactly once in the merged
\* result, with the value it had in the existing input (for an env list with
\* duplicate keys, the value of the first occurrence), whatever the additions
\* and the container name are.
C1_MergeNeverOverwrites ==
    /\ mpc = "labels" =>
          \A K \in DictKeys(existing) :
              /\ Cardinality({i \in 1..Len(merged) : merged[i][1] = K}) = 1
              /\ DictGet(merged, K) = DictGet(existing, K)
    /\ mpc = "envs" =>
          /\ \A j \in 1..Len(merged_envs) : Contains(merged_envs[j], "=")
          /\ \A i \in 1..Len(existing_envs) :
                Contains(existing_envs[i], "=") =>
                  LET K == EnvKey(existing_envs[i])
                      hits == {j \in 1..Len(merged_envs) : EnvKey(merged_envs[j]) = K}
                  IN  /\ Cardinality(hits) = 1
                      /\ \A j \in hits :
                            EnvValue(merged_envs[j]) =
                              EnvValue(existing_envs[FirstWithKey(existing_envs, K)])

\* C1 witness: merge_labels ran on additions that name an existing key twice,
\* once only after {{name}} substitution, with another value.
C1_Witness ==
    /\ mpc = "labels"
    /\ Len(additions) = 2
    /\ additions[1][1] = PLACEHOLDER
    /\ additions[2][1] = name
    /\ DictHas(existing, name)
    /\ DictGet(existing, name) # Replace(additions[1][2], PLACEHOLDER, name)
    /\ DictGet(merged, name) = DictGet(existing, name)

\* addition i is the first one with its (substituted) key, and the key is new
InsertedLabel(i) ==
    LET ek == Subst(PartsOf(additions[i]).k, name)
    IN  /\ ~DictHas(existing, ek)
        /\ \A j \in 1..(i - 1) : Subst(PartsOf(additions[j]).k, name) # ek

InsertedEnv(i) ==
    LET k == additions[i][1]
    IN  /\ \A h \in 1..Len(existing_envs) :
              Contains(existing_envs[h], "=") => EnvKey(existing_envs[h]) # k
        /\ \A j \in 1..(i - 1) : additions[j][1] # k

\* C5 (as amended): an addition inserted by merge_labels has every {{name}}
\* of its key and of its value replaced by the container name and no other
\* text changed; an addition inserted by merge_envs has every {{name}} of its
\* value replaced and its key left as given.
C5_TemplatingLabelsKeyValueEnvsValue ==
    /\ mpc = "labels" =>
          \A i \in 1..Len(additions) :
              InsertedLabel(i) =>
                LET p == PartsOf(additions[i])
                IN  /\ DictHas(merged, Subst(p.k, name))
                    /\ DictGet(merged, Subst(p.k, name)) = Subst(p.v, name)
    /\ mpc = "envs" =>
          \A i \in 1..Len(additions) :
              InsertedEnv(i) =>
                LET p == PartsOf(additions[i])
                IN  \E j \in 1..Len(merged_envs) :
                        merged_envs[j] = Flat(p.k) \o <<"=">> \o Subst(p.v, name)

\* C5 as claimed: the key of an addition inserted by merge_envs is
\* substituted too.
C5_TemplatingKeyAndValueEverywhere ==
    /\ mpc = "labels" =>
          \A i \in 1..Len(additions) :
              InsertedLabel(i) =>
                LET p == PartsOf(additions[i])
                IN  /\ DictHas(merged, Subst(p.k, name))
                    /\ DictGet(merged, Subst(p.k, name)) = Subst(p.v, name)
    /\ mpc = "envs" =>
          \A i \in 1..Len(additions) :
              InsertedEnv(i) =>
                LET p == PartsOf(additions[i])
                IN  \E j \in 1..Len(merged_envs) :
                        merged_envs[j] = Subst(p.k, name) \o <<"=">> \o Subst(p.v, name)

\* C5 witness: merge_envs inserted two additions with the placeholder in key
\* and value; the second has it twice in its value.
C5_Witness ==
    /\ name = <<"d", "b">>
    /\ Len(additions) = 2
    /\ additions[1] = <<PLACEHOLDER, PLACEHOLDER>>
    /\ additions[2] = <<<<"r", ".">> \o PLACEHOLDER,
                        PLACEHOLDER \o <<":">> \o PLACEHOLDER>>
    /\ mpc = "envs"
    /\ existing_envs = <<>>
    /\ merged_envs = << PLACEHOLDER \o <<"=", "d", "b">>,
                        <<"r", ".">> \o PLACEHOLDER
                            \o <<"=", "d", "b", ":", "d", "b">> >>

----------------------------------------------------------------------------
(* SpecFilter: each filter applied once and then again to its own result *)

FilterEnvPool ==
    { <<"P", "A", "T", "H", "=", "/", "b">>,
      <<"H", "O", "M", "E", "=">>,
      <<"D", "O", "C", "K", "E", "R", "_", "P", "A", "T", "H", "=", "x">>,
      <<"T", "Z", "=", "U", "=", "1">>,
      <<"P", "A", "T", "H", "S", "=", "x">>,
      <<"T", "E", "R", "M">>,
      <<"=", "v">> }

FilterLabelKeyPool ==
    { <<"m", "a", "i", "n", "t", "a", "i", "n", "e", "r">>,
      <<"b", "u", "i", "l", "d", "_", "v", "e", "r", "s", "i", "o", "n">>,
      <<"o", "r", "g", ".", "o", "p", "e", "n", "c", "o", "n", "t", "a", "i", "n",
        "e", "r", "s", ".", "t">>,
      <<"o", "r", "g", ".", "o", "p", "e", "n">>,
      <<"m", "a", "i", "n", "t", "a", "i", "n", "e", "r", "s">>,
      <<"a", "p", "p">> }

FilterLabelDicts ==
    {d \in SeqUpTo(FilterLabelKeyPool \X {<<"x">>}, MaxExisting) :
        \A i, j \in 1..Len(d) : i # j => d[i][1] # d[j][1]}

InitFilter ==
    /\ \/ env_list \in SeqUpTo(FilterEnvPool, MaxExisting) /\ labels = <<>>
       \/ env_list = <<>> /\ labels \in FilterLabelDicts
    /\ env_once = <<>> /\ env_twice = <<>>
    /\ labels_once = <<>> /\ labels_twice = <<>>
    /\ fpc = "start"
    /\ MergeIdle /\ RestartIdle /\ PortsIdle /\ RenderIdle /\ MainIdle

FilterEnvOnce ==
    /\ fpc = "start"
    /\ env_once' = filter_env_vars(env_list)
    /\ fpc' = "env1"
    /\ UNCHANGED <<env_list, env_twice, labels, labels_once, labels_twice>>
    /\ UNCHANGED <<mergeVars, restartVars, portVars, renderVars, mainVars>>

FilterEnvAgain ==
    /\ fpc = "env1"
    /\ env_twice' = filter_env_vars(env_once)
    /\ fpc' = "env2"
    /\ UNCHANGED <<env_list, env_once, labels, labels_once, labels_twice>>
    /\ UNCHANGED <<mergeVars, restartVars, portVars, renderVars, mainVars>>

FilterLabelsOnce ==
    /\ fpc = "start"
    /\ labels_once' = filter_labels(labels)
    /\ fpc' = "labels1"
    /\ UNCHANGED <<env_list, env_once, env_twice, labels, labels_twice>>
    /\ UNCHANGED <<mergeVars, restartVars, portVars, renderVars, mainVars>>

FilterLabelsAgain ==
    /\ fpc = "labels1"
    /\ labels_twice' = filter_labels(labels_once)
    /\ fpc' = "labels2"
    /\ UNCHANGED <<env_list, env_once, env_twice, labels, labels_once>>
    /\ UNCHANGED <<mergeVars, restartVars, portVars, renderVars, mainVars>>

NextFilter ==
    FilterEnvOnce \/ FilterEnvAgain \/ FilterLabelsOnce \/ FilterLabelsAgain

SpecFilter == InitFilter /\ [][NextFilter]_vars

\* a is b with some entries left out, the others in b's order
RECURSIVE IsSubsequence(_, _)
IsSubsequence(a, b) ==
    IF a = <<>> THEN TRUE
    ELSE IF b = <<>> THEN FALSE
    ELSE IF a[1] = b[1] THEN IsSubsequence(Tail(a), Tail(b))
    ELSE IsSubsequence(a, Tail(b))

\* C9: filtering is idempotent: filter_env_vars applied to its own result
\* returns it unchanged, and that result keeps the surviving entries of the
\* raw list in their order; filter_labels applied to its own result returns
\* it unchanged.
C9_FilteringIdempotent ==
    /\ fpc \in {"env1", "env2"} => IsSubsequence(env_once, env_list)
    /\ fpc = "env2" => env_twice = env_once
    /\ fpc = "labels2" => labels_twice = labels_once

\* C9 witness: the second pass ran on a list of which the first pass dropped
\* a system key and kept an entry.
C9_Witness ==
    /\ fpc = "env2"
    /\ Len(env_list) = 2
    /\ Len(env_once) = 1
    /\ env_list[1] = <<"P", "A", "T", "H", "=", "/", "b">>
    /\ env_list[2] = <<"T", "Z", "=", "U", "=", "1">>
    /\ env_twice = <<env_list[2]>>

----------------------------------------------------------------------------
(* SpecRestart: format_restart_policy applied to bounded policies *)

RestartNamePool ==
    { None, Some(<<>>), Some(<<"n", "o">>), Some(<<"a", "l", "w", "a", "y", "s">>),
      Some(<<"u", "n", "l", "e", "s", "s", "-", "s", "t", "o", "p", "p", "e", "d">>),
      Some(ON_FAILURE) }

RetryPool == {NoInt} \cup {[some |-> TRUE, v |-> n] : n \in (-MaxRetry)..MaxRetry}

InitRestart ==
    /\ policy \in [Name : RestartNamePool, MaximumRetryCount : RetryPool]
    /\ restart_text = <<>>
    /\ rpc = "start"
    /\ MergeIdle /\ FilterIdle /\ PortsIdle /\ RenderIdle /\ MainIdle

FormatRestartPolicy ==
    /\ rpc = "start"
    /\ restart_text' = format_restart_policy(policy)
    /\ rpc' = "done"
    /\ UNCHANGED <<policy, mergeVars, filterVars, portVars, renderVars, mainVars>>

NextRestart == FormatRestartPolicy

SpecRestart == InitRestart /\ [][NextRestart]_vars

\* C8: format_restart_policy returns the empty string when the name is absent
\* or empty, "on-failure:<count>" exactly when the name is "on-failure" and a
\* positive retry count is present, and the bare name in every other case
\* (a zero or negative count included).
C8_RestartFormatting ==
    rpc = "done" =>
        LET nm == policy.Name
            retry == policy.MaximumRetryCount
        IN  IF ~nm.some \/ nm.v = <<>> THEN restart_text = <<>>
            ELSE IF nm.v = ON_FAILURE /\ retry.some /\ retry.v > 0
                 THEN restart_text = ON_FAILURE \o <<":">> \o IntToStr(retry.v)
                 ELSE restart_text = nm.v

----------------------------------------------------------------------------
(* SpecPorts: collect_ports applied to bounded port maps *)

PortKeyPool == { <<"8", "0", "/", "t", "c", "p">>, <<"5", "3", "/", "u", "d", "p">> }

BindingPool ==
    { [HostIp |-> Some(<<"0", ".", "0", ".", "0", ".", "0">>), HostPort |-> Some(<<"8", "0">>)],
      [HostIp |-> Some(<<":", ":">>), HostPort |-> Some(<<"8", "0">>)],
      [HostIp |-> Some(<<"1", "0", ".", "1">>), HostPort |-> Some(<<"8", "0">>)],
      [HostIp |-> None, HostPort |-> Some(<<"8", "1">>)],
      [HostIp |-> Some(<<>>), HostPort |-> Some(<<>>)],
      [HostIp |-> Some(<<"1", "0", ".", "1">>), HostPort |-> None] }

BindingLists == {None} \cup {Some(b) : b \in SeqUpTo(BindingPool, MaxBindings)}

PortMaps ==
    {None} \cup
    {Some(d) : d \in {m \in SeqUpTo(PortKeyPool \X BindingLists, Cardinality(PortKeyPool)) :
                         \A i, j \in 1..Len(m) : i # j => m[i][1] # m[j][1]}}

InitPorts ==
    /\ port_settings \in PortMaps
    /\ port_args = <<>>
    /\ ppc = "start"
    /\ MergeIdle /\ FilterIdle /\ RestartIdle /\ RenderIdle /\ MainIdle

CollectPorts ==
    /\ ppc = "start"
    /\ port_args' = collect_ports(port_settings)
    /\ ppc' = "done"
    /\ UNCHANGED <<port_settings, mergeVars, filterVars, restartVars, renderVars, mainVars>>

NextPorts == CollectPorts

SpecPorts == InitPorts /\ [][NextPorts]_vars

\* every (container port, binding) pair of the map: keys in map order, the
\* bindings of a key in list order
RECURSIVE PortPairs(_)
PortPairs(items) ==
    IF items = <<>> THEN <<>>
    ELSE (IF items[1][2].some
          THEN [i \in 1..Len(items[1][2].v) |->
                   [port |-> items[1][1], binding |-> items[1][2].v[i]]]
          ELSE <<>>)
         \o PortPairs(Tail(items))

HasHostPort(pair) == pair.binding.HostPort.some /\ pair.binding.HostPort.v # <<>>

\* the argument the claim describes for a pair with a host port
ExpectedPortArg(pair) ==
    LET ip == pair.binding.HostIp
        named == /\ ip.some
                 /\ ip.v # <<"0", ".", "0", ".", "0", ".", "0">>
                 /\ ip.v # <<":", ":">>
                 /\ ip.v # <<>>
    IN  <<"-", "p", " ">>
        \o (IF named THEN ip.v \o <<":">> ELSE <<>>)
        \o pair.binding.HostPort.v \o <<":">> \o pair.port

\* C7: collect_ports returns no argument twice; it returns an argument for
\* exactly the (container port, binding) pairs whose binding has a non-empty
\* host port, composed as hostIP:hostPort:containerPort/proto when the host IP
\* is set and no wildcard and as hostPort:containerPort/proto otherwise; ports
\* without bindings contribute nothing; and the arguments stand in the order
\* in which they are first composed over the whole map.
C7_PortsDedupFirstSeen ==
    ppc = "done" =>
        LET pairs == PortPairs(IF port_settings.some THEN port_settings.v ELSE <<>>)
            good == {i \in 1..Len(pairs) : HasHostPort(pairs[i])}
            first(arg) == CHOOSE i \in good :
                              /\ ExpectedPortArg(pairs[i]) = arg
                              /\ \A h \in good : ExpectedPortArg(pairs[h]) = arg => i <= h
        IN  /\ \A i, j \in 1..Len(port_args) : i # j => port_args[i] # port_args[j]
            /\ {port_args[i] : i \in 1..Len(port_args)}
                   = {ExpectedPortArg(pairs[i]) : i \in good}
            /\ \A i, j \in 1..Len(port_args) :
                   i < j => first(port_args[i]) < first(port_args[j])

\* C7 witness: two bindings of one port compose the same argument (both host
\* IPs are wildcards), a named host IP follows, and a second port has a
\* binding without a host port.
C7_Witness ==
    /\ ppc = "done"
    /\ port_settings.some
    /\ Len(port_settings.v) = 2
    /\ port_settings.v[1][2].some
    /\ Len(port_settings.v[1][2].v) = 2
    /\ port_settings.v[1][2].v[1].HostIp = Some(<<"0", ".", "0", ".", "0", ".", "0">>)
    /\ port_settings.v[1][2].v[2].HostIp = Some(<<":", ":">>)
    /\ port_settings.v[2][2].some
    /\ Len(port_settings.v[2][2].v) = 2
    /\ port_settings.v[2][2].v[1].HostPort = None
    /\ port_settings.v[2][2].v[2].HostIp = Some(<<"1", "0", ".", "1">>)
    /\ port_args = << <<"-", "p", " ", "8", "0", ":", "8", "0", "/", "t", "c", "p">>,
                      <<"-", "p", " ", "1", "0", ".", "1", ":", "8", "0", ":",
                        "5", "3", "/", "u", "d", "p">> >>

----------------------------------------------------------------------------
(* SpecRender: main's rendering of one container, over bounded containers   *)
(* and operator inputs.  The inputs are four families, each varying some    *)
(* facets of BaseContainer and BaseCli.                                     *)

\* network modes and restart policies against the operator's defaults
GateInputs ==
    { <<[BaseContainer EXCEPT !.NetworkMode = nm, !.RestartPolicy = rp],
        [BaseCli EXCEPT !.add_network = an, !.add_restart = ar]>> :
        nm \in {None, Some(<<>>), Some(<<"b", "r", "i", "d", "g", "e">>), Some(<<"d", "e", "f", "a", "u", "l", "t">>), Some(<<"h", "o", "s", "t">>)},
        rp \in { NoPolicy,
                 [Name |-> Some(<<>>), MaximumRetryCount |-> [some |-> TRUE, v |-> 0]],
                 [Name |-> Some(<<"a", "l", "w", "a", "y", "s">>), MaximumRetryCount |-> [some |-> TRUE, v |-> 0]],
                 [Name |-> Some(ON_FAILURE), MaximumRetryCount |-> [some |-> TRUE, v |-> 3]],
                 [Name |-> Some(ON_FAILURE), MaximumRetryCount |-> NoInt] },
        an \in {None, Some(<<>>), Some(<<"h", "o", "m", "e">>), Some(<<"h", "o", "s", "t">>)},
        ar \in {None, Some(<<>>), Some(<<"n", "o">>), Some(<<"a", "l", "w", "a", "y", "s">>)} }

EntrypointPool ==
    { NoCmd, StrCmd(<<>>), StrCmd(<<"/", "e">>), ListCmd(<<>>), ListCmd(<<<<"/", "e">>>>),
      ListCmd(<<<<>>>>) }

CmdPool ==
    {NoCmd, StrCmd(<<>>), StrCmd(<<"c">>)}
        \cup {ListCmd(l) : l \in SeqUpTo({<<"c">>, <<"-", "e">>, <<"a", " ", "b">>}, MaxCmd)}

\* entrypoints and commands
TailInputs ==
    { <<[BaseContainer EXCEPT !.Entrypoint = ep, !.Cmd = cm],
        [BaseCli EXCEPT !.include_cmd = ic]>> :
        ep \in EntrypointPool, cm \in CmdPool, ic \in BOOLEAN }

RenderLabelDicts ==
    {d \in SeqUpTo({<<"m", "a", "i", "n", "t", "a", "i", "n", "e", "r">>, <<"a", "p", "p">>, <<"w">>} \X {<<"x">>}, MaxExisting) :
        \A i, j \in 1..Len(d) : i # j => d[i][1] # d[j][1]}

RenderLabelAdds ==
    { <<<<"m", "a", "i", "n", "t", "a", "i", "n", "e", "r">>, <<"y">>>>, <<<<"a", "p", "p">>, <<"y">>>>, <<PLACEHOLDER, <<"y">>>>,
      <<<<"n">>, PLACEHOLDER>> }

\* labels against label additions
LabelAddInputs ==
    { <<[BaseContainer EXCEPT !.Labels = lb], [BaseCli EXCEPT !.label_pairs = lp]>> :
        lb \in {None} \cup {Some(d) : d \in RenderLabelDicts},
        lp \in SeqUpTo(RenderLabelAdds, MaxAdds) }

RenderEnvAdds ==
    { <<<<"P", "A", "T", "H">>, <<"/", "x">>>>, <<<<"T", "Z">>, <<"y">>>>, <<<<"n">>, PLACEHOLDER>> }

\* environment entries against environment additions
EnvAddInputs ==
    { <<[BaseContainer EXCEPT !.Env = ev], [BaseCli EXCEPT !.env_pairs = ep]>> :
        ev \in {None} \cup {Some(l) : l \in SeqUpTo({<<"P", "A", "T", "H", "=", "/", "b">>, <<"T", "Z", "=", "x">>, <<"T", "Z", "=", "y">>},
                                                     MaxExisting)},
        ep \in SeqUpTo(RenderEnvAdds, MaxAdds) }

SomeMounts ==
    Some(<< [Destination |-> Some(<<"/", "d">>), Type |-> Some(<<"b", "i", "n", "d">>), Source |-> Some(<<"/", "s">>),
             Name |-> None, RW |-> "false"],
            [Destination |-> None, Type |-> Some(<<"b", "i", "n", "d">>), Source |-> Some(<<"/", "s">>),
             Name |-> None, RW |-> "true"],
            [Destination |-> Some(<<"/", "v">>), Type |-> Some(<<"v", "o", "l", "u", "m", "e">>), Source |-> Some(<<"/", "s">>),
             Name |-> Some(<<"v", "o", "l">>), RW |-> "true"],
            [Destination |-> Some(<<"/", "t">>), Type |-> Some(<<"t", "m", "p", "f", "s">>), Source |-> None,
             Name |-> None, RW |-> "none"] >>)

SomeDevices ==
    Some(<< [PathOnHost |-> Some(<<"/", "d", "e", "v", "/", "a">>), PathInContainer |-> Some(<<"/", "d", "e", "v", "/", "b">>),
             CgroupPermissions |-> None],
            [PathOnHost |-> Some(<<"/", "d", "e", "v", "/", "a">>), PathInContainer |-> None,
             CgroupPermissions |-> Some(<<"r">>)] >>)

SomeCaps == Some(<<<<"C", "H", "O", "W", "N">>, <<"S", "Y", "S", "_", "A", "D", "M", "I", "N">>, <<"c", "a", "p", "_", "n", "e", "t", "_", "r", "a", "w">>, <<"-", "e", " ", "x">>>>)

SomePorts ==
    Some(<< <<<<"8", "0", "/", "t", "c", "p">>, Some(<<[HostIp |-> Some(<<"0", ".", "0", ".", "0", ".", "0">>), HostPort |-> Some(<<"8", "0">>)]>>)>> >>)

\* every group of arguments present or absent
OrderInputs ==
    { <<[BaseContainer EXCEPT
            !.name = nm, !.NetworkMode = nw, !.RestartPolicy.Name = rp,
            !.Ports = po, !.Mounts = mo, !.Devices = de, !.CapAdd = ca,
            !.Sysctls = sy, !.Env = ev, !.Labels = lb, !.Image = im[1],
            !.tags = im[2], !.Cmd = cm],
        [BaseCli EXCEPT !.include_cmd = (cm # NoCmd)]>> :
        nm \in {<<"w">>, <<"a", " ", "b">>},
        nw \in {None, Some(<<"h", "o", "s", "t">>)},
        rp \in {None, Some(<<"a", "l", "w", "a", "y", "s">>)},
        po \in {None, SomePorts},
        mo \in {None, SomeMounts},
        de \in {None, SomeDevices},
        ca \in {None, SomeCaps},
        sy \in {None, Some(<< <<<<"n", "e", "t", ".", "x">>, <<"1">>>> >>)},
        ev \in {None, Some(<<<<"T", "Z", "=", "a", " ", "b">>>>)},
        lb \in {None, Some(<< <<<<"a", "p", "p">>, <<"-", "p", " ", "1">>>> >>)},
        im \in { <<Some(<<"i", "m", "g">>), <<>>>>, <<None, <<<<"-", "p", " ", "1">>>>>>, <<Some(<<>>), <<>>>> },
        cm \in {NoCmd, ListCmd(<<<<"c">>, <<"-", "-", "n", "a", "m", "e">>, <<"-", "e", " ", "x">>>>)} }

RenderInputs == GateInputs \cup TailInputs \cup LabelAddInputs \cup EnvAddInputs \cup OrderInputs

InitRender ==
    /\ \E inp \in RenderInputs : container = inp[1] /\ cli = inp[2]
    /\ gated = NoGate
    /\ args = <<>>
    /\ formatted = <<>>
    /\ xpc = "start"
    /\ MergeIdle /\ FilterIdle /\ RestartIdle /\ PortsIdle /\ MainIdle

\* main: the arguments of render_container_block for the container
Gate ==
    /\ xpc = "start"
    /\ gated' = [ add_restart |-> restart_override(container, cli.add_restart),
                  add_network |-> network_override(container, cli.add_network) ]
    /\ xpc' = "gated"
    /\ UNCHANGED <<container, cli, args, formatted>>
    /\ UNCHANGED <<mergeVars, filterVars, restartVars, portVars, mainVars>>

\* render_container_block: the call of format_command
FormatCommand ==
    /\ xpc = "gated"
    /\ args' = format_command_args(container, cli.label_pairs, cli.env_pairs,
                                   gated.add_restart, gated.add_network,
                                   cli.include_cmd)
    /\ formatted' = format_text(args')
    /\ xpc' = "done"
    /\ UNCHANGED <<container, cli, gated>>
    /\ UNCHANGED <<mergeVars, filterVars, restartVars, portVars, mainVars>>

NextRender == Gate \/ FormatCommand

SpecRender == InitRender /\ [][NextRender]_vars

\* the group an argument belongs to by its flag; the image and the command
\* tail carry no flag
ArgGroup(a) ==
    IF StartsWith(a, <<"-", "-", "n", "a", "m", "e", " ">>) THEN 1
    ELSE IF StartsWith(a, <<"-", "-", "n", "e", "t", "w", "o", "r", "k", " ">>) THEN 2
    ELSE IF StartsWith(a, <<"-", "-", "r", "e", "s", "t", "a", "r", "t", " ">>) THEN 3
    ELSE IF StartsWith(a, <<"-", "p", " ">>) THEN 4
    ELSE IF StartsWith(a, <<"-", "v", " ">>) THEN 5
    ELSE IF StartsWith(a, <<"-", "-", "d", "e", "v", "i", "c", "e", " ">>) THEN 6
    ELSE IF StartsWith(a, <<"-", "-", "c", "a", "p", "-", "a", "d", "d", " ">>) THEN 7
    ELSE IF StartsWith(a, <<"-", "-", "s", "y", "s", "c", "t", "l", " ">>) THEN 8
    ELSE IF StartsWith(a, <<"-", "e", " ">>) THEN 9
    ELSE IF StartsWith(a, <<"-", "-", "l", "a", "b", "e", "l", " ">>) THEN 10
    ELSE 11

ArgsOfGroup(g) == {i \in 1..Len(args) : ArgGroup(args[i]) = g}

\* the image as the claim describes it
ExpectedImage ==
    IF container.Image.some /\ container.Image.v # <<>> THEN container.Image.v
    ELSE IF Len(container.tags) > 0 THEN container.tags[1]
    ELSE container.short_id

\* C2: --add-label and --add-env add only what is missing: when the inspected
\* container has a label with the (substituted) key K of an addition, with
\* another value, no "--label K=V" with the operator's value V is emitted;
\* when Config.Env has an entry with the key K of an addition, with another
\* value, no "-e K=V" with the operator's value is emitted.  Claimed for every
\* key, the filtered ones included.
C2_AddOnlyIfMissing ==
    xpc = "done" =>
        /\ \A i \in 1..Len(cli.label_pairs) :
              LET K == Replace(cli.label_pairs[i][1], PLACEHOLDER, container.name)
                  V == Replace(cli.label_pairs[i][2], PLACEHOLDER, container.name)
              IN  (/\ container.Labels.some
                   /\ DictHas(container.Labels.v, K)
                   /\ DictGet(container.Labels.v, K) # V)
                  => \A j \in 1..Len(args) :
                         args[j] # <<"-", "-", "l", "a", "b", "e", "l", " ">> \o shlex_quote(K \o <<"=">> \o V)
        /\ \A i \in 1..Len(cli.env_pairs) :
              LET K == cli.env_pairs[i][1]
                  V == Replace(cli.env_pairs[i][2], PLACEHOLDER, container.name)
                  env == IF container.Env.some THEN container.Env.v ELSE <<>>
                  own == {h \in 1..Len(env) : Contains(env[h], "=") /\ EnvKey(env[h]) = K}
              IN  (own # {} /\ \A h \in own : EnvValue(env[h]) # V)
                  => \A j \in 1..Len(args) :
                         args[j] # <<"-", "e", " ">> \o shlex_quote(K \o <<"=">> \o V)

\* C3: the arguments follow one fixed order: "--name <name>" first and once,
\* then at most one --network, at most one --restart, the -p, -v, --device,
\* --cap-add, --sysctl, -e and --label arguments group after group, then the
\* image, then the command tail; and the text begins with "docker run".
C3_FixedArgumentOrder ==
    xpc = "done" =>
        /\ args[1] = <<"-", "-", "n", "a", "m", "e", " ">> \o shlex_quote(container.name)
        /\ ArgsOfGroup(1) = {1}
        /\ Cardinality(ArgsOfGroup(2)) <= 1
        /\ Cardinality(ArgsOfGroup(3)) <= 1
        /\ \A i, j \in 1..Len(args) : i < j => ArgGroup(args[i]) <= ArgGroup(args[j])
        /\ ArgsOfGroup(11) # {}
        /\ \A i \in ArgsOfGroup(11) :
              (\A h \in ArgsOfGroup(11) : i <= h) => args[i] = shlex_quote(ExpectedImage)
        /\ (container.Ports = None) = (ArgsOfGroup(4) = {})
        /\ (container.Mounts = None) = (ArgsOfGroup(5) = {})
        /\ (container.Devices = None) = (ArgsOfGroup(6) = {})
        /\ (container.CapAdd = None) = (ArgsOfGroup(7) = {})
        /\ (container.Sysctls = None) = (ArgsOfGroup(8) = {})
        /\ StartsWith(formatted, <<"d", "o", "c", "k", "e", "r", " ", "r", "u", "n">>)

\* C3 witness: every group is present, and values that look like flags are
\* quoted.
C3_Witness ==
    /\ xpc = "done"
    /\ \A g \in 1..11 : ArgsOfGroup(g) # {}
    /\ Cardinality(ArgsOfGroup(11)) = 3
    /\ container.name = <<"a", " ", "b">>
    /\ args[1] = <<"-", "-", "n", "a", "m", "e", " ", "'", "a", " ", "b", "'">>
    /\ args[Len(args)] = <<"'", "-", "e", " ", "x", "'">>

IsNetworkArg(a) == StartsWith(a, <<"-", "-", "n", "e", "t", "w", "o", "r", "k", " ">>)
IsRestartArg(a) == StartsWith(a, <<"-", "-", "r", "e", "s", "t", "a", "r", "t", " ">>)

NoRestartName == ~container.RestartPolicy.Name.some \/ container.RestartPolicy.Name.v = <<>>
DefaultNetworkMode ==
    \/ ~container.NetworkMode.some
    \/ container.NetworkMode.v \in {<<>>, <<"b", "r", "i", "d", "g", "e">>, <<"d", "e", "f", "a", "u", "l", "t">>}

CmdAsClaimed(x) ==
    IF x.kind = "str" THEN <<x.str>> ELSE IF x.kind = "list" THEN x.list ELSE <<>>

\* the same, with an empty string counted as absent
CmdAsAmended(x) ==
    IF x.kind = "str" /\ x.str # <<>> THEN <<x.str>>
    ELSE IF x.kind = "list" THEN x.list ELSE <<>>

\* the tail the claim describes for an entrypoint and a cmd given as lists
ExpectedTail(entrypoint, cmd) ==
    IF ~cli.include_cmd THEN <<>>
    ELSE IF Len(entrypoint) > 0 THEN cmd
    ELSE SubSeq(cmd, 2, Len(cmd))

\* args is flags, then the image, then exactly the quoted tail
EndsWithImageAndTail(tail) ==
    LET at == Len(args) - Len(tail)
    IN  /\ at >= 1
        /\ args[at] = shlex_quote(ExpectedImage)
        /\ \A i \in 1..(at - 1) : ArgGroup(args[i]) <= 10
        /\ \A i \in 1..Len(tail) : args[at + i] = shlex_quote(tail[i])

\* C6 (as amended): with entrypoint and cmd each a list, a non-empty string
\* taken as a list of one, or absent or an empty string taken as the empty
\* list: nothing follows the image when include_cmd is false; the tail is
\* every element of cmd when include_cmd is true and the entrypoint is
\* non-empty; and cmd without its first element when the entrypoint is empty.
C6_CommandTailEmptyStringAbsent ==
    xpc = "done" =>
        EndsWithImageAndTail(ExpectedTail(CmdAsAmended(container.Entrypoint),
                                          CmdAsAmended(container.Cmd)))

\* C6 as claimed: every single string, the empty one included, is a list of
\* one element.
C6_CommandTail ==
    xpc = "done" =>
        EndsWithImageAndTail(ExpectedTail(CmdAsClaimed(container.Entrypoint),
                                          CmdAsClaimed(container.Cmd)))

\* C6 witness: a string entrypoint keeps both elements of cmd in the tail,
\* the second one quoted.
C6_Witness ==
    /\ xpc = "done"
    /\ cli.include_cmd
    /\ container.Entrypoint = StrCmd(<<"/", "e">>)
    /\ container.Cmd = ListCmd(<<<<"c">>, <<"a", " ", "b">>>>)
    /\ args = <<<<"-", "-", "n", "a", "m", "e", " ", "w">>, <<"i", "m", "g">>, <<"c">>, <<"'", "a", " ", "b", "'">>>>

----------------------------------------------------------------------------
(* SpecMain: main, from the parsed command line to its return.  The inputs  *)
(* are four families: the raw additions varied; the daemon failing; the     *)
(* patterns and the running containers varied; the running containers, the  *)
(* output mode and the existing files varied.                               *)

RawPool == { <<"k", "=", "v">>, <<"j", "=", "v", "=", "w">>, <<" ", "k", " ", "=", " ", "v">>, <<"k", "v">>, <<"=", "v">>, <<" ", "=", "v">> }

MainContainerPool ==
    { BaseContainer,
      [BaseContainer EXCEPT !.name = <<"a", "/", "b">>, !.NetworkMode = Some(<<"b", "r", "i", "d", "g", "e">>)],
      [BaseContainer EXCEPT !.name = <<"a", "_", "b">>, !.RestartPolicy.Name = Some(<<"a", "l", "w", "a", "y", "s">>)] }

RunningLists ==
    {l \in SeqUpTo(MainContainerPool, MaxContainers) :
        \A i, j \in 1..Len(l) : i # j => l[i].name # l[j].name}

OLD == <<"o", "l", "d">>
TargetPaths == {<<"d", "/", "w", ".", "s", "h">>, <<"d", "/", "a", "_", "b", ".", "s", "h">>, <<"o", ".", "s", "h">>}

DaemonUp(running) == [up |-> TRUE, list_ok |-> TRUE, running |-> running]

ArgvInputs ==
    { [argv |-> [BaseArgv EXCEPT !.add_labels = pr[1], !.add_envs = pr[2]],
       daemon |-> DaemonUp(<<BaseContainer>>), files |-> NoFiles] :
        pr \in (SeqUpTo(RawPool, MaxAdds) \X {<<>>, <<<<"j", "=", "v", "=", "w">>>>})
                 \cup ({<<>>, <<<<"j", "=", "v", "=", "w">>>>, <<<<"k", "v">>>>} \X SeqUpTo(RawPool, MaxAdds)) }

DaemonInputs ==
    { [argv |-> BaseArgv, daemon |-> d, files |-> NoFiles] :
        d \in { [up |-> FALSE, list_ok |-> FALSE, running |-> <<>>],
                [up |-> TRUE, list_ok |-> FALSE, running |-> <<>>] } }

SelectInputs ==
    { [argv |-> [BaseArgv EXCEPT !.patterns = pt],
       daemon |-> DaemonUp(rl), files |-> NoFiles] :
        pt \in {<<<<"W">>, <<"z", "z">>>>, <<<<"z", "z">>>>},
        rl \in RunningLists }

WriteInputs ==
    { [argv |-> [BaseArgv EXCEPT !.output = ou, !.no_overwrite = no,
                                 !.add_restart = Some(<<"n", "o">>),
                                 !.add_network = Some(<<"h", "o", "m", "e">>)],
       daemon |-> DaemonUp(rl),
       files |-> [p \in ex |-> OLD]] :
        ou \in {None, Some(<<>>), Some(<<"o", ".", "s", "h">>)},
        no \in BOOLEAN,
        rl \in RunningLists,
        ex \in SUBSET TargetPaths }

MainInputs == ArgvInputs \cup DaemonInputs \cup SelectInputs \cup WriteInputs

InitMain ==
    /\ \E inp \in MainInputs :
          /\ argv = inp.argv
          /\ daemon = inp.daemon
          /\ files = inp.files
          /\ dirs = IF \E p \in DOMAIN inp.files : StartsWith(p, <<"d", "/">>) THEN {<<"d">>} ELSE {}
    /\ pc = "parse"
    /\ label_pairs = <<>> /\ env_pairs = <<>>
    /\ contacted = FALSE /\ listed = FALSE
    /\ target_containers = <<>> /\ blocks = <<>>
    /\ widx = 0 /\ overwrite_all = FALSE /\ written = 0 /\ prompts = 0
    /\ answers = <<>>
    /\ stdout = <<>> /\ stderr = <<>>
    /\ exit_code = "none"
    /\ MergeIdle /\ FilterIdle /\ RestartIdle /\ PortsIdle /\ RenderIdle

otherVars == <<mergeVars, filterVars, restartVars, portVars, renderVars>>

\* main: both parses succeed
ParseArgsOk ==
    /\ pc = "parse"
    /\ parse_label_args(argv.add_labels).ok
    /\ parse_env_args(argv.add_envs).ok
    /\ label_pairs' = parse_label_args(argv.add_labels).parsed
    /\ env_pairs' = parse_env_args(argv.add_envs).parsed
    /\ pc' = "connect"
    /\ UNCHANGED <<argv, daemon, contacted, listed, target_containers, blocks, dirs,
                   files, widx, overwrite_all, written, prompts, stdout, stderr,
                   exit_code, answers,
                   otherVars>>

\* main: a ValueError of parse_label_args or of parse_env_args: print, return 2
ParseArgsFail ==
    /\ pc = "parse"
    /\ LET L == parse_label_args(argv.add_labels)
           E == parse_env_args(argv.add_envs)
       IN  /\ ~L.ok \/ ~E.ok
           /\ label_pairs' = IF L.ok THEN L.parsed ELSE <<>>
           /\ stderr' = Append(stderr, IF ~L.ok THEN L.error ELSE E.error)
    /\ exit_code' = "2"
    /\ pc' = "done"
    /\ UNCHANGED <<argv, daemon, env_pairs, contacted, listed, target_containers,
                   blocks, dirs, files, widx, overwrite_all, written, prompts,
                   stdout, answers,
                   otherVars>>

\* connect_client: docker.from_env() returns a client
ConnectOk ==
    /\ pc = "connect"
    /\ daemon.up
    /\ contacted' = TRUE
    /\ pc' = "list"
    /\ UNCHANGED <<argv, daemon, label_pairs, env_pairs, listed, target_containers,
                   blocks, dirs, files, widx, overwrite_all, written, prompts,
                   stdout, stderr, exit_code, answers,
                   otherVars>>

\* connect_client: DockerException: print, sys.exit(1)
ConnectFail ==
    /\ pc = "connect"
    /\ ~daemon.up
    /\ contacted' = TRUE
    /\ stderr' = Append(stderr, <<"E", "r", "r", "o", "r", " ", "c", "o", "n", "n", "e", "c", "t", "i", "n", "g", " ", "t", "o", " ", "D", "o", "c", "k", "e", "r", " ", "d", "a", "e", "m", "o", "n">>)
    /\ exit_code' = "1"
    /\ pc' = "done"
    /\ UNCHANGED <<argv, daemon, label_pairs, env_pairs, listed, target_containers,
                   blocks, dirs, files, widx, overwrite_all, written, prompts,
                   stdout, answers,
                   otherVars>>

\* main: client.containers.list() raises: print, return 1
ListFail ==
    /\ pc = "list"
    /\ ~daemon.list_ok
    /\ listed' = TRUE
    /\ stderr' = Append(stderr, <<"E", "r", "r", "o", "r", " ", "l", "i", "s", "t", "i", "n", "g", " ", "c", "o", "n", "t", "a", "i", "n", "e", "r", "s">>)
    /\ exit_code' = "1"
    /\ pc' = "done"
    /\ UNCHANGED <<argv, daemon, label_pairs, env_pairs, contacted,
                   target_containers, blocks, dirs, files, widx, overwrite_all,
                   written, prompts, stdout, answers,
                   otherVars>>

\* main: no container is selected: print, return 0
ListNone ==
    /\ pc = "list"
    /\ daemon.list_ok
    /\ select_containers(daemon.running, argv.patterns) = <<>>
    /\ listed' = TRUE
    /\ stderr' = Append(stderr, <<"N", "o", " ", "m", "a", "t", "c", "h", "i", "n", "g", " ", "r", "u", "n", "n", "i", "n", "g", " ", "c", "o", "n", "t", "a", "i", "n", "e", "r", "s", " ", "f", "o", "u", "n", "d", ".">>)
    /\ exit_code' = "0"
    /\ pc' = "done"
    /\ UNCHANGED <<argv, daemon, label_pairs, env_pairs, contacted,
                   target_containers, blocks, dirs, files, widx, overwrite_all,
                   written, prompts, stdout, answers,
                   otherVars>>

\* main: the list and the selection
ListSome ==
    /\ pc = "list"
    /\ daemon.list_ok
    /\ select_containers(daemon.running, argv.patterns) # <<>>
    /\ listed' = TRUE
    /\ target_containers' = select_containers(daemon.running, argv.patterns)
    /\ pc' = "render"
    /\ UNCHANGED <<argv, daemon, label_pairs, env_pairs, contacted, blocks, dirs,
                   files, widx, overwrite_all, written, prompts, stdout, stderr,
                   exit_code, answers,
                   otherVars>>

\* main: the block of one container
block_of(c) ==
    render_container_block(
        c,
        format_text(format_command_args(c, label_pairs, env_pairs,
                                        restart_override(c, argv.add_restart),
                                        network_override(c, argv.add_network),
                                        argv.include_cmd)))

\* main: blocks = [(c.name, render_container_block(...)) for c in target_containers]
RenderBlocks ==
    /\ pc = "render"
    /\ blocks' = [i \in 1..Len(target_containers) |->
                     <<target_containers[i].name, block_of(target_containers[i])>>]
    /\ pc' = IF OrEmpty(argv.output) # <<>> THEN "combined" ELSE "makedirs"
    /\ UNCHANGED <<argv, daemon, label_pairs, env_pairs, contacted, listed,
                   target_containers, dirs, files, widx, overwrite_all, written,
                   prompts, stdout, stderr, exit_code, answers,
                   otherVars>>

CombinedContent == combined_script_of([i \in 1..Len(blocks) |-> blocks[i][2]])
CombinedWrote ==
    <<"W", "r", "o", "t", "e", " ">> \o IntToStr(Len(blocks)) \o <<" ", "c", "o", "n", "t", "a", "i", "n", "e", "r", " ", "d", "e", "f", "i", "n", "i", "t", "i", "o", "n", "s", " ", "t", "o", " ">> \o argv.output.v

\* write_output_combined: the path does not exist: write, print, return 0
CombinedWriteNew ==
    /\ pc = "combined"
    /\ argv.output.v \notin DOMAIN files
    /\ files' = WriteFile(files, argv.output.v, CombinedContent)
    /\ stdout' = Append(stdout, CombinedWrote)
    /\ exit_code' = "0"
    /\ pc' = "done"
    /\ UNCHANGED <<argv, daemon, label_pairs, env_pairs, contacted, listed,
                   target_containers, blocks, dirs, widx, overwrite_all, written,
                   prompts, stderr, answers,
                   otherVars>>

\* write_output_combined: the path exists: should_overwrite prompts
CombinedAsk ==
    /\ pc = "combined"
    /\ argv.output.v \in DOMAIN files
    /\ pc' = "prompt"
    /\ UNCHANGED <<argv, daemon, label_pairs, env_pairs, contacted, listed,
                   target_containers, blocks, dirs, files, widx, overwrite_all,
                   written, prompts, stdout, stderr, exit_code, answers,
                   otherVars>>

\* write_output_per_container: os.makedirs and the loop's variables
MakeDirs ==
    /\ pc = "makedirs"
    /\ dirs' = dirs \cup {argv.per_container_dir}
    /\ written' = 0
    /\ overwrite_all' = FALSE
    /\ widx' = 1
    /\ pc' = "file"
    /\ UNCHANGED <<argv, daemon, label_pairs, env_pairs, contacted, listed,
                   target_containers, blocks, files, prompts, stdout, stderr,
                   exit_code, answers,
                   otherVars>>

CurrentPath == full_path_of(argv.per_container_dir, blocks[widx][1])
PerContainerWrote ==
    <<"W", "r", "o", "t", "e", " ">> \o IntToStr(written) \o <<"/">> \o IntToStr(Len(blocks))
        \o <<" ", "c", "o", "n", "t", "a", "i", "n", "e", "r", " ", "s", "c", "r", "i", "p", "t", "s", " ", "t", "o", " ">> \o argv.per_container_dir

\* write_output_per_container returns; main prints and returns 0
FilesDone ==
    /\ pc = "file"
    /\ widx > Len(blocks)
    /\ stdout' = Append(stdout, PerContainerWrote)
    /\ exit_code' = "0"
    /\ pc' = "done"
    /\ UNCHANGED <<argv, daemon, label_pairs, env_pairs, contacted, listed,
                   target_containers, blocks, dirs, files, widx, overwrite_all,
                   written, prompts, stderr, answers,
                   otherVars>>

\* write_output_per_container: --no-overwrite and the file exists: next block
FileSkipExisting ==
    /\ pc = "file"
    /\ widx <= Len(blocks)
    /\ argv.no_overwrite /\ CurrentPath \in DOMAIN files
    /\ widx' = widx + 1
    /\ UNCHANGED <<argv, daemon, pc, label_pairs, env_pairs, contacted, listed,
                   target_containers, blocks, dirs, files, overwrite_all, written,
                   prompts, stdout, stderr, exit_code, answers,
                   otherVars>>

\* write_output_per_container: should_overwrite says yes without a prompt
\* (the path does not exist, or overwrite_all): write, next block
FileWrite ==
    /\ pc = "file"
    /\ widx <= Len(blocks)
    /\ ~(argv.no_overwrite /\ CurrentPath \in DOMAIN files)
    /\ CurrentPath \notin DOMAIN files \/ overwrite_all
    /\ files' = WriteFile(files, CurrentPath, script_of(blocks[widx][2]))
    /\ written' = written + 1
    /\ widx' = widx + 1
    /\ UNCHANGED <<argv, daemon, pc, label_pairs, env_pairs, contacted, listed,
                   target_containers, blocks, dirs, overwrite_all, prompts, stdout,
                   stderr, exit_code, answers,
                   otherVars>>

\* write_output_per_container: should_overwrite prompts
FileAsk ==
    /\ pc = "file"
    /\ widx <= Len(blocks)
    /\ ~argv.no_overwrite
    /\ CurrentPath \in DOMAIN files /\ ~overwrite_all
    /\ pc' = "prompt"
    /\ UNCHANGED <<argv, daemon, label_pairs, env_pairs, contacted, listed,
                   target_containers, blocks, dirs, files, widx, overwrite_all,
                   written, prompts, stdout, stderr, exit_code, answers,
                   otherVars>>

Responses == { <<"y">>, <<"Y", "e", "s">>, <<"a">>, <<" ", "A", "L", "L", " ">>, <<>>, <<"N", "o">>, <<"x">> }

Combined == OrEmpty(argv.output) # <<>>

\* should_overwrite: `response`, read at the prompt for path
Asked(path, r) == [file |-> path, response |-> Lower(Strip(r))]

\* should_overwrite in write_output_per_container: "y" or "a": write, next block
AnswerWriteFile ==
    /\ pc = "prompt" /\ ~Combined
    /\ prompts < MaxPrompts
    /\ \E r \in Responses :
          /\ Answer(r) \in {"yes", "all"}
          /\ overwrite_all' = (Answer(r) = "all")
          /\ answers' = Append(answers, Asked(CurrentPath, r))
    /\ prompts' = prompts + 1
    /\ files' = WriteFile(files, CurrentPath, script_of(blocks[widx][2]))
    /\ written' = written + 1
    /\ widx' = widx + 1
    /\ pc' = "file"
    /\ UNCHANGED <<argv, daemon, label_pairs, env_pairs, contacted, listed,
                   target_containers, blocks, dirs, stdout, stderr, exit_code,
                   otherVars>>

\* should_overwrite in write_output_per_container: "n" or nothing: next block
AnswerSkipFile ==
    /\ pc = "prompt" /\ ~Combined
    /\ prompts < MaxPrompts
    /\ \E r \in Responses :
          /\ Answer(r) = "no"
          /\ answers' = Append(answers, Asked(CurrentPath, r))
    /\ prompts' = prompts + 1
    /\ widx' = widx + 1
    /\ pc' = "file"
    /\ UNCHANGED <<argv, daemon, label_pairs, env_pairs, contacted, listed,
                   target_containers, blocks, dirs, files, overwrite_all, written,
                   stdout, stderr, exit_code, otherVars>>

\* should_overwrite: any other response: the prompt is repeated
AnswerAgain ==
    /\ pc = "prompt"
    /\ prompts < MaxPrompts
    /\ \E r \in Responses :
          /\ Answer(r) = "again"
          /\ answers' = Append(answers, Asked((IF Combined THEN argv.output.v ELSE CurrentPath), r))
    /\ prompts' = prompts + 1
    /\ UNCHANGED <<argv, daemon, pc, label_pairs, env_pairs, contacted, listed,
                   target_containers, blocks, dirs, files, widx, overwrite_all,
                   written, stdout, stderr, exit_code, otherVars>>

\* should_overwrite in write_output_combined: "y" or "a": write, print, return 0
AnswerWriteCombined ==
    /\ pc = "prompt" /\ Combined
    /\ prompts < MaxPrompts
    /\ \E r \in Responses :
          /\ Answer(r) \in {"yes", "all"}
          /\ answers' = Append(answers, Asked(argv.output.v, r))
    /\ prompts' = prompts + 1
    /\ files' = WriteFile(files, argv.output.v, CombinedContent)
    /\ stdout' = Append(stdout, CombinedWrote)
    /\ exit_code' = "0"
    /\ pc' = "done"
    /\ UNCHANGED <<argv, daemon, label_pairs, env_pairs, contacted, listed,
                   target_containers, blocks, dirs, widx, overwrite_all, written,
                   stderr, otherVars>>

\* should_overwrite in write_output_combined: "n" or nothing: print, return 0
AnswerSkipCombined ==
    /\ pc = "prompt" /\ Combined
    /\ prompts < MaxPrompts
    /\ \E r \in Responses :
          /\ Answer(r) = "no"
          /\ answers' = Append(answers, Asked(argv.output.v, r))
    /\ prompts' = prompts + 1
    /\ stderr' = Append(stderr, <<"S", "k", "i", "p", "p", "e", "d", " ", "w", "r", "i", "t", "i", "n", "g", " ">> \o argv.output.v)
    /\ exit_code' = "0"
    /\ pc' = "done"
    /\ UNCHANGED <<argv, daemon, label_pairs, env_pairs, contacted, listed,
                   target_containers, blocks, dirs, files, widx, overwrite_all,
                   written, stdout, otherVars>>

NextMain ==
    \/ ParseArgsOk \/ ParseArgsFail
    \/ ConnectOk \/ ConnectFail
    \/ ListFail \/ ListNone \/ ListSome
    \/ RenderBlocks
    \/ CombinedWriteNew \/ CombinedAsk
    \/ MakeDirs \/ FilesDone \/ FileSkipExisting \/ FileWrite \/ FileAsk
    \/ AnswerWriteFile \/ AnswerSkipFile \/ AnswerAgain
    \/ AnswerWriteCombined \/ AnswerSkipCombined

SpecMain == InitMain /\ [][NextMain]_vars

\* The position of the first "=" of an item that has one
FirstEq(raw) == CHOOSE i \in 1..Len(raw) : raw[i] = "=" /\ \A j \in 1..(i - 1) : raw[j] # "="

HasEq(raw) == \E i \in 1..Len(raw) : raw[i] = "="

\* No "=", or nothing but whitespace before the first "="
Malformed(raw) ==
    ~HasEq(raw) \/ \A j \in 1..(FirstEq(raw) - 1) : raw[j] \in Whitespace

\* What is left of the first "=" without its surrounding whitespace, and all
\* that is right of it
ExpectedPair(raw) ==
    LET eq == FirstEq(raw)
        ink == {j \in 1..(eq - 1) : raw[j] \notin Whitespace}
        lo == CHOOSE j \in ink : \A k \in ink : j <= k
        hi == CHOOSE j \in ink : \A k \in ink : j >= k
    IN  <<SubSeq(raw, lo, hi), SubSeq(raw, eq + 1, Len(raw))>>

ExpectedError(raw, kind) ==
    <<"I", "n", "v", "a", "l", "i", "d", " ">> \o kind \o <<" ", "'">> \o raw \o
        (IF HasEq(raw) THEN <<"'", ",", " ", "k", "e", "y", " ", "i", "s", " ", "e", "m", "p", "t", "y">> ELSE <<"'", ",", " ", "e", "x", "p", "e", "c", "t", "e", "d", " ", "K", "E", "Y", "=", "V", "A", "L", "U", "E">>)

FirstMalformed(items) ==
    items[CHOOSE i \in 1..Len(items) :
              Malformed(items[i]) /\ \A j \in 1..(i - 1) : ~Malformed(items[j])]

AnyMalformed(items) == \E i \in 1..Len(items) : Malformed(items[i])

\* C10: when an --add-label or --add-env item has no "=" or only whitespace
\* before its first "=", main contacts no runtime, lists and renders no
\* container, creates no directory and writes no file, and it ends with exit
\* code 2 and the validation error of the first such item on stderr; when
\* every item is well formed no validation error is reported, the exit code
\* is not 2, and each item becomes the pair of its trimmed text before the
\* first "=" and all the text after that "=".
C10_MalformedAdditionFailsFast ==
    IF AnyMalformed(argv.add_labels) \/ AnyMalformed(argv.add_envs)
    THEN /\ pc \in {"parse", "done"}
         /\ ~contacted /\ ~listed
         /\ target_containers = <<>> /\ blocks = <<>>
         /\ dirs = {} /\ files = NoFiles /\ stdout = <<>>
         /\ pc = "done" =>
               /\ exit_code = "2"
               /\ stderr =
                     << IF AnyMalformed(argv.add_labels)
                        THEN ExpectedError(FirstMalformed(argv.add_labels), <<"l", "a", "b", "e", "l">>)
                        ELSE ExpectedError(FirstMalformed(argv.add_envs),
                                           <<"e", "n", "v", "i", "r", "o", "n", "m", "e", "n", "t", " ", "v", "a", "r", "i", "a", "b", "l", "e">>) >>
    ELSE /\ exit_code # "2"
         /\ \A i \in 1..Len(stderr) : ~StartsWith(stderr[i], <<"I", "n", "v", "a", "l", "i", "d", " ">>)
         /\ pc # "parse" =>
               /\ label_pairs = [i \in 1..Len(argv.add_labels) |->
                                    ExpectedPair(argv.add_labels[i])]
               /\ env_pairs = [i \in 1..Len(argv.add_envs) |->
                                  ExpectedPair(argv.add_envs[i])]

\* main has ended on an item whose key is empty after trimming, with the
\* daemon up and a container running
C10_Witness ==
    /\ pc = "done" /\ exit_code = "2"
    /\ \E i \in 1..Len(argv.add_envs) : argv.add_envs[i] = <<" ", "=", "v">>
    /\ ~AnyMalformed(argv.add_labels)
    /\ \E i \in 1..Len(argv.add_labels) : argv.add_labels[i] = <<"j", "=", "v", "=", "w">>
    /\ daemon.up /\ Len(daemon.running) > 0

----------------------------------------------------------------------------
(* The overwrite protocol of write_output_per_container *)

YesTexts == {<<"y">>, <<"y", "e", "s">>}
AllTexts == {<<"a">>, <<"a", "l", "l">>}
NoTexts == {<<>>, <<"n">>, <<"n", "o">>}

AnsweredAll(log) == \E i \in 1..Len(log) : log[i].response \in AllTexts

\* write_output_per_container is at the block widx
AtFile == ~Combined /\ pc = "file" /\ widx >= 1 /\ widx <= Len(blocks)

\* this step read one more response
NewAnswer == Len(answers') = Len(answers) + 1 /\ SubSeq(answers', 1, Len(answers)) = answers
LastAnswer == answers'[Len(answers')]

C11_State ==
    ~Combined =>
        /\ AnsweredAll(answers) => pc # "prompt"
        /\ \A i \in 1..(Len(answers) - 1) : answers[i].response \notin AllTexts
        /\ argv.no_overwrite => answers = <<>> /\ pc # "prompt"
        /\ pc \in {"parse", "connect", "list", "render", "makedirs"} => written = 0
        /\ pc = "prompt" => widx >= 1 /\ widx <= Len(blocks) /\ CurrentPath \in DOMAIN files

C11_Step ==
    ~Combined =>
        \* a path that does not exist at its turn is written without a prompt
        /\ AtFile /\ CurrentPath \notin DOMAIN files =>
              /\ CurrentPath \in DOMAIN files'
              /\ answers' = answers /\ pc' # "prompt"
              /\ widx' = widx + 1
        \* an existing path is overwritten only with --no-overwrite off and on
        \* yes or all at its own prompt, or after an earlier all
        /\ \A p \in DOMAIN files :
              /\ p \in DOMAIN files'
              /\ files'[p] # files[p] =>
                    /\ ~argv.no_overwrite
                    /\ widx >= 1 /\ widx <= Len(blocks) /\ p = CurrentPath
                    /\ \/ AnsweredAll(answers)
                       \/ /\ NewAnswer /\ LastAnswer.file = p
                          /\ LastAnswer.response \in YesTexts \cup AllTexts
        \* after all, no response is read any more
        /\ AnsweredAll(answers) => answers' = answers
        /\ answers' # answers => NewAnswer /\ pc = "prompt" /\ LastAnswer.file = CurrentPath
        \* no, or nothing, skips this file only
        /\ NewAnswer /\ LastAnswer.response \in NoTexts =>
              /\ files' = files /\ written' = written
              /\ widx' = widx + 1 /\ pc' = "file" /\ ~overwrite_all'
        \* an existing file is prompted for unless all was answered
        /\ AtFile /\ CurrentPath \in DOMAIN files /\ ~argv.no_overwrite
                  /\ ~AnsweredAll(answers) =>
              pc' = "prompt" /\ files' = files /\ widx' = widx
        \* any other response writes nothing and repeats the prompt
        /\ NewAnswer /\ LastAnswer.response \notin YesTexts \cup AllTexts \cup NoTexts =>
              /\ files' = files /\ written' = written
              /\ widx' = widx /\ pc' = "prompt"
        \* with --no-overwrite an existing file is passed over
        /\ AtFile /\ CurrentPath \in DOMAIN files /\ argv.no_overwrite =>
              files' = files /\ widx' = widx + 1 /\ pc' = "file"
        \* the count is the number of writes
        /\ files' # files => written' = written + 1
        /\ files' = files => written' = written

\* C11: in write_output_per_container with should_overwrite, a path that does
\* not exist at its turn is written without a prompt; an existing path is
\* overwritten only if --no-overwrite is off and the operator answered yes or
\* all at that file's prompt or all at an earlier prompt; after all no later
\* file is prompted for; no or an empty answer skips only that file and later
\* existing files are still prompted for; an unrecognised answer writes
\* nothing and repeats the prompt for the same file; with --no-overwrite no
\* existing file is prompted for or written; the count grows by one with
\* every write and only then.
C11_OverwriteProtocol == [](C11_State) /\ [][C11_Step]_vars

\* the operator answered something unrecognised and then all at the prompt
\* for the first file, and the second file, which exists, is at its turn
C11_Witness ==
    /\ ~Combined /\ pc = "file" /\ widx = 2 /\ Len(blocks) >= 2
    /\ Len(answers) = 2
    /\ answers[1].response \notin YesTexts \cup AllTexts \cup NoTexts
    /\ answers[2].response = <<"a", "l", "l">>
    /\ answers[1].file = answers[2].file
    /\ overwrite_all /\ written = 1
    /\ CurrentPath \in DOMAIN files /\ files[CurrentPath] = OLD

====
